---- MODULE Spec2Model ----
(***************************************************************************)
(* State-machine model of the voice interview session component            *)
(* (src/components/InterviewSession.tsx) and of the part of the host       *)
(* application (src/unnamed/part_000) that receives its completion         *)
(* callback.                                                               *)
(*                                                                         *)
(* One action is one run-to-completion segment of JavaScript: an event     *)
(* handler, or the continuation of an async function from one await to     *)
(* the next.  React state updates and the effects they trigger are         *)
(* committed with the segment that requested them.  Resources created by   *)
(* the n-th start attempt are identified by n; 0 is the null reference.    *)
(***************************************************************************)
EXTENDS Integers, Sequences, FiniteSets, TLC

\* ------------------------------------------------------------- bounds ---
MaxStarts == 1      \* start requests in one run of Spec
MaxAttempts == 2    \* start requests in one run of SpecRestart
MaxClock == 2       \* distinct values Date.now() can return in one run
InitialTime == 2    \* duration * 60, scaled down
MaxMsgs == 2        \* inbound messages handled in one run
MaxFrames == 1      \* captured blocks sent on one channel
MaxOutTime == 1     \* how far an output context's clock advances

Gens == 1..(IF MaxStarts > MaxAttempts THEN MaxStarts ELSE MaxAttempts)

VARIABLES
  \* React state of the component (lines 14-20) and whether it is mounted
  mounted, hasStarted, isConnected, timeLeft, isMicOn, status, error, transcript,
  \* refs (lines 23-43)
  connectionIdRef, activeSessionRef, streamRef, audioContextRef,
  inputAudioContextRef, processorRef, sourceRef, gainRef, visualizerFrameRef,
  outputAnalyserRef, nextStartTimeRef, transcriptTextRef, isConnectedRef,
  isMicOnRef, isEndedRef,
  \* the platform: clock, channels, streams, audio contexts, nodes, frames
  mediaSupported, syncRender, clock, chan, stream, outCtx, inCtx, graph, frame,
  closeCalls, outTime, sent, scheduled, msgCount,
  \* control state of the async functions and timers
  spc, sGen, genTok, cleanups, epc, endClosure, pendingText, decoding,
  timerOn, timerClosure,
  \* observation (history) variables
  attempts, endGen, endTrigger, endCount, completeCount, deliveredText,
  expiryLog, last,
  \* the transcription fragments handed to the current attempt's onmessage
  received,
  \* a frame on its way through the PCM codec of utils/audio.ts
  codec,
  \* the state of the host application (part_000 lines 11-17) and of its
  \* report request
  app

uiVars == <<mounted, hasStarted, isConnected, timeLeft, isMicOn, status, error,
            transcript>>
teardownRefs == <<connectionIdRef, activeSessionRef, streamRef, audioContextRef,
                  inputAudioContextRef, processorRef, sourceRef, gainRef,
                  visualizerFrameRef, isConnectedRef>>
otherRefsButEnded == <<outputAnalyserRef, nextStartTimeRef, transcriptTextRef,
                       isMicOnRef>>
otherRefs == <<otherRefsButEnded, isEndedRef>>
relVars == <<stream, outCtx, inCtx, graph, frame, closeCalls>>
resVars == <<chan, relVars>>
envVars == <<mediaSupported, syncRender, clock, outTime, sent, scheduled,
             msgCount, received, codec, app>>
procVars == <<spc, sGen, genTok, cleanups, epc, endClosure, pendingText,
              decoding, timerOn, timerClosure>>
histVars == <<attempts, endGen, endTrigger, endCount, completeCount,
              deliveredText, expiryLog, last>>
vars == <<uiVars, teardownRefs, otherRefs, resVars, envVars, procVars, histVars>>

\* ------------------------------------------------------------ helpers ---
Max(a, b) == IF a >= b THEN a ELSE b

\* A React state setter: ignored once the component is unmounted.
SetState(old, new) == IF mounted THEN new ELSE old

Ev(label, g) == <<label, g>>
Labels(ev) == [i \in 1..Len(ev) |-> ev[i][1]]
Has(ev, label, g) == \E i \in 1..Len(ev) : ev[i] = <<label, g>>
Count(ev, label, g) == Cardinality({i \in 1..Len(ev) : ev[i] = <<label, g>>})

\* The refs cleanupAudio reads and writes, as one record.
Refs ==
  [tok |-> connectionIdRef, sess |-> activeSessionRef, conn |-> isConnectedRef,
   stream |-> streamRef, inCtx |-> inputAudioContextRef,
   outCtx |-> audioContextRef, proc |-> processorRef, src |-> sourceRef,
   gain |-> gainRef, frame |-> visualizerFrameRef]

\* Failures a release step can be made to produce.
\* "chanClose": session.close() throws; "closeReject": the awaited close
\* promise rejects; "tracksStop": a track's stop() throws; "nodesDisconnect":
\* a node's disconnect() throws.  The first two are failures the channel and
\* audio APIs document; the last two are injected only by SpecFault.
ApiFaults == {"none", "chanClose", "closeReject"}
AllFaults == ApiFaults \cup {"tracksStop", "nodesDisconnect"}

\* ------------------------------------------------------- cleanupAudio ---
\* Each operator runs cleanupAudio from one point of its body up to its next
\* await, its end, or an uncaught exception.  R is the refs record, fault
\* the failure injected into this segment, ev the release events so far.
\* The result says where the invocation stands (at), which resource's
\* close it awaits (held) and which events happened.

\* lines 87-100: disconnect nodes, cancel the metering frame
TeardownNodes(R, fault, ev) ==
  IF fault = "nodesDisconnect" /\ (R.proc # 0 \/ R.src # 0 \/ R.gain # 0)
  THEN [R |-> R, at |-> "rejected", held |-> 0, ev |-> ev]
  ELSE LET e1 == IF R.proc # 0 THEN Append(ev, Ev("nodesDisconnect", R.proc)) ELSE ev
           e2 == IF R.src # 0 THEN Append(e1, Ev("nodesDisconnect", R.src)) ELSE e1
           e3 == IF R.gain # 0 THEN Append(e2, Ev("nodesDisconnect", R.gain)) ELSE e2
           e4 == IF R.frame # 0 THEN Append(e3, Ev("frameCancel", R.frame)) ELSE e3
       IN [R |-> [R EXCEPT !.proc = 0, !.src = 0, !.gain = 0, !.frame = 0],
           at |-> "done", held |-> 0, ev |-> e4]

\* lines 81-85: close the output context
TeardownOutCtx(R, fault, ev) ==
  IF R.outCtx = 0 THEN TeardownNodes(R, fault, ev)
  ELSE IF outCtx[R.outCtx] = "closed"
       THEN TeardownNodes([R EXCEPT !.outCtx = 0], fault, ev)
       ELSE [R |-> [R EXCEPT !.outCtx = 0], at |-> "outCtx", held |-> R.outCtx,
             ev |-> Append(ev, Ev("outCtxCloseCall", R.outCtx))]

\* TeardownInCtx with line 78 moved after the await: the ref still holds the
\* context while its close() is pending.
TeardownInCtxLateClear(R, fault, ev) ==
  IF R.inCtx = 0 THEN TeardownOutCtx(R, fault, ev)
  ELSE IF inCtx[R.inCtx] = "closed"
       THEN TeardownOutCtx([R EXCEPT !.inCtx = 0], fault, ev)
       ELSE [R |-> R, at |-> "inCtx", held |-> R.inCtx,
             ev |-> Append(ev, Ev("inCtxCloseCall", R.inCtx))]

\* lines 76-80: close the input context
TeardownInCtx(R, fault, ev) ==
  IF R.inCtx = 0 THEN TeardownOutCtx(R, fault, ev)
  ELSE IF inCtx[R.inCtx] = "closed"
       THEN TeardownOutCtx([R EXCEPT !.inCtx = 0], fault, ev)
       ELSE [R |-> [R EXCEPT !.inCtx = 0], at |-> "inCtx", held |-> R.inCtx,
             ev |-> Append(ev, Ev("inCtxCloseCall", R.inCtx))]

\* TeardownStream with line 72 left out: the tracks are stopped and the
\* stream ref keeps its value.
TeardownStreamKeepRef(R, fault, ev) ==
  LET R1 == [R EXCEPT !.conn = FALSE] IN
  IF R1.stream = 0 THEN TeardownInCtx(R1, fault, ev)
  ELSE TeardownInCtx(R1, fault, Append(ev, Ev("tracksStop", R1.stream)))

\* lines 66-73: clear the connection flag, stop the microphone tracks
TeardownStream(R, fault, ev) ==
  LET R1 == [R EXCEPT !.conn = FALSE] IN
  IF R1.stream = 0 THEN TeardownInCtx(R1, fault, ev)
  ELSE IF fault = "tracksStop"
       THEN [R |-> R1, at |-> "rejected", held |-> 0, ev |-> ev]
       ELSE TeardownInCtx([R1 EXCEPT !.stream = 0], fault,
                          Append(ev, Ev("tracksStop", R1.stream)))

\* TeardownSession with lines 70-73 moved before line 56: the tracks are
\* stopped before the channel is closed.
TeardownSessionTracksFirst(R, fault, ev) ==
  LET R1 == [R EXCEPT !.tok = 0, !.stream = 0]
      e0 == Append(ev, Ev("tokenInvalidate", 0))
      e1 == IF R.stream # 0 THEN Append(e0, Ev("tracksStop", R.stream)) ELSE e0
  IN IF R1.sess = 0 THEN TeardownStream(R1, fault, e1)
     ELSE [R |-> [R1 EXCEPT !.sess = 0], at |-> "session", held |-> R1.sess,
           ev |-> Append(e1, Ev("chanCloseCall", R1.sess))]

\* TeardownSession leaving the token and the channel handle in place while
\* the close it has called is pending
TeardownSessionKeepsHandle(R, fault, ev) ==
  IF R.sess = 0
  THEN TeardownStream([R EXCEPT !.tok = 0], fault,
                      Append(ev, Ev("tokenInvalidate", 0)))
  ELSE [R |-> R, at |-> "session", held |-> R.sess,
        ev |-> Append(ev, Ev("chanCloseCall", R.sess))]

\* lines 53-64: invalidate the token, close the channel
TeardownSession(R, fault, ev) ==
  LET R1 == [R EXCEPT !.tok = 0]
      e1 == Append(ev, Ev("tokenInvalidate", 0))
  IN IF R1.sess = 0 THEN TeardownStream(R1, fault, e1)
     ELSE IF fault = "chanClose"
          THEN TeardownStream([R1 EXCEPT !.sess = 0], fault,
                              Append(e1, Ev("chanCloseThrow", R1.sess)))
          ELSE [R |-> [R1 EXCEPT !.sess = 0], at |-> "session", held |-> R1.sess,
                ev |-> Append(e1, Ev("chanCloseCall", R1.sess))]

\* cleanupAudio from its first statement
CleanupAudio(R, fault) == TeardownSession(R, fault, <<>>)

\* cleanupAudio resumed after the await it was suspended at
CleanupContinue(c, R, fault) ==
  LET ok == fault # "closeReject" IN
  CASE c.at = "session" ->
         TeardownStream(R, fault,
           <<Ev(IF ok THEN "chanCloseDone" ELSE "chanCloseFail", c.held)>>)
    [] c.at = "inCtx" ->
         TeardownOutCtx(R, fault,
           <<Ev(IF ok THEN "inCtxCloseDone" ELSE "inCtxCloseFail", c.held)>>)
    [] c.at = "outCtx" ->
         TeardownNodes(R, fault,
           <<Ev(IF ok THEN "outCtxCloseDone" ELSE "outCtxCloseFail", c.held)>>)

Suspended(res) == res.at \in {"session", "inCtx", "outCtx"}

\* ------------------------------------------- effects of a teardown run ---
\* Write the refs record back to the refs.
ApplyRefs(R) ==
  /\ connectionIdRef' = R.tok
  /\ activeSessionRef' = R.sess
  /\ isConnectedRef' = R.conn
  /\ streamRef' = R.stream
  /\ inputAudioContextRef' = R.inCtx
  /\ audioContextRef' = R.outCtx
  /\ processorRef' = R.proc
  /\ sourceRef' = R.src
  /\ gainRef' = R.gain
  /\ visualizerFrameRef' = R.frame

\* A context stays "running" until its close() promise resolves.
CtxAfter(ctx, ev, done) ==
  [g \in Gens |-> IF Has(ev, done, g) THEN "closed" ELSE ctx[g]]

\* What the release events of one segment do to the platform's resources.
\* (Closing a channel shows when its onclose callback is delivered.)
ApplyEvents(ev) ==
  /\ stream' = [g \in Gens |->
                  IF Has(ev, "tracksStop", g) THEN "stopped" ELSE stream[g]]
  /\ inCtx' = CtxAfter(inCtx, ev, "inCtxCloseDone")
  /\ outCtx' = CtxAfter(outCtx, ev, "outCtxCloseDone")
  /\ graph' = [g \in Gens |->
                 IF Has(ev, "nodesDisconnect", g) THEN "disconnected"
                 ELSE graph[g]]
  /\ frame' = [g \in Gens |->
                 IF Has(ev, "frameCancel", g) THEN "cancelled" ELSE frame[g]]
  /\ closeCalls' =
       [k \in DOMAIN closeCalls |->
          closeCalls[k]
          + (IF k[1] = "chan"
             THEN Count(ev, "chanCloseCall", k[2]) + Count(ev, "chanCloseThrow", k[2])
             ELSE IF k[1] = "inCtx" THEN Count(ev, "inCtxCloseCall", k[2])
             ELSE Count(ev, "outCtxCloseCall", k[2]))]

\* One segment of a cleanupAudio invocation has run with result res: commit
\* it.  old is the suspended invocation that ran (a set, empty when the
\* invocation has just been called), log what it had done before, born the
\* number of start attempts made when it was called.
CommitCleanup(res, caller, old, log, born) ==
  /\ ApplyRefs(res.R)
  /\ ApplyEvents(res.ev)
  /\ cleanups' = (cleanups \ old) \cup
       (IF Suspended(res)
        THEN {[caller |-> caller, at |-> res.at, held |-> res.held,
               log |-> log \o Labels(res.ev), born |-> born]}
        ELSE {})

NoCleanup == UNCHANGED <<teardownRefs, relVars, cleanups>>

\* ------------------------------------------------------ transcript text ---
RoleLabel(role) == IF role = "user" THEN "Candidate: " ELSE "Interviewer: "

\* lines 421-423: map each entry to "<label><text>" and join by a blank line.
\* Text is a sequence of atoms, so that concatenation is \o.
RECURSIVE Flatten(_)
Flatten(log) ==
  IF log = <<>> THEN <<>>
  ELSE LET e == log[Len(log)]
           line == <<RoleLabel(e.role)>> \o e.text
       IN IF Len(log) = 1 THEN line
          ELSE Flatten(SubSeq(log, 1, Len(log) - 1)) \o <<"\n\n">> \o line

\* lines 421-423: the flattened log, or the raw buffer, or the placeholder
FinalTranscript(log, raw) ==
  IF Flatten(log) # <<>> THEN Flatten(log)
  ELSE IF raw # <<>> THEN raw
  ELSE <<"No transcript available.">>

\* AppendFragment without the merge into a last entry of the same role
AppendFragmentNoMerge(prev, role, text) ==
  Append(prev, [role |-> role, text |-> text])

\* lines 277-283 / 289-295: the setTranscript updater for one fragment
AppendFragment(prev, role, text) ==
  IF prev # <<>> /\ prev[Len(prev)].role = role
  THEN [prev EXCEPT ![Len(prev)].text = @ \o text]
  ELSE Append(prev, [role |-> role, text |-> text])

\* ----------------------------------------------------------------- Init ---
SessionInit ==
  /\ mounted = TRUE /\ hasStarted = FALSE /\ isConnected = FALSE
  /\ timeLeft = InitialTime /\ isMicOn = TRUE /\ status = "" /\ error = "null"
  /\ transcript = <<>>
  /\ connectionIdRef = 0 /\ activeSessionRef = 0 /\ streamRef = 0
  /\ audioContextRef = 0 /\ inputAudioContextRef = 0 /\ processorRef = 0
  /\ sourceRef = 0 /\ gainRef = 0 /\ visualizerFrameRef = 0
  /\ outputAnalyserRef = 0 /\ nextStartTimeRef = 0 /\ transcriptTextRef = <<>>
  /\ isConnectedRef = FALSE /\ isMicOnRef = TRUE /\ isEndedRef = FALSE
  /\ mediaSupported \in BOOLEAN
  /\ syncRender \in BOOLEAN
  /\ clock = 1
  /\ chan = [g \in Gens |-> "none"] /\ stream = [g \in Gens |-> "none"]
  /\ outCtx = [g \in Gens |-> "none"] /\ inCtx = [g \in Gens |-> "none"]
  /\ graph = [g \in Gens |-> "none"] /\ frame = [g \in Gens |-> "none"]
  /\ closeCalls = [k \in {"chan", "inCtx", "outCtx"} \X Gens |-> 0]
  /\ outTime = [g \in Gens |-> 0] /\ sent = [g \in Gens |-> 0]
  /\ scheduled = <<>> /\ msgCount = 0 /\ received = <<>>
  /\ spc = "idle" /\ sGen = 0 /\ genTok = [g \in Gens |-> 0]
  /\ cleanups = {} /\ epc = "idle" /\ endClosure = <<>> /\ pendingText = <<>>
  /\ decoding = <<>> /\ timerOn = FALSE /\ timerClosure = <<>>
  /\ attempts = 0 /\ endGen = 0 /\ endTrigger = "none"
  /\ endCount = [g \in Gens |-> 0] /\ completeCount = 0
  /\ deliveredText = <<>> /\ expiryLog = <<>>
  /\ last = [op |-> "other", stale |-> FALSE]

\* part_000 lines 11-17, at the interview step: the resume is analysed and
\* no report has been requested.  analyzing: a handleAnalyze call is still
\* awaiting analyzeResume (line 23).
AppInit ==
  [step |-> "INTERVIEW", analysis |-> "set", report |-> "null",
   transcriptData |-> <<>>, isLoading |-> FALSE, error |-> "null",
   pc |-> "idle", reportInput |-> <<>>, analyzing |-> FALSE]

\* The session component in the application; no frame is in the codec.
Init == SessionInit /\ codec = [pc |-> "idle"] /\ app = AppInit

\* last observes the most recent step when it delivered a callback (or resumed
\* the inbound-message handler) whose token was no longer current.
Callbacks == {"onopen", "onclose", "onerror", "onmessage", "decoded",
              "onaudioprocess"}
Did(op, g, stale) ==
  last' = IF op \in Callbacks /\ stale THEN [op |-> op, stale |-> TRUE]
          ELSE [op |-> "other", stale |-> FALSE]

\* --------------------------------------------------------- startSession ---
\* The Start and Retry buttons (lines 479-495) call startSession; both are
\* rendered only while hasStarted is false, and Start is disabled while a
\* status is shown without an error.  Lines 104-106.  The model follows one
\* startSession call at a time.
StartClick(fault, limit) ==
  /\ mounted /\ ~hasStarted /\ (status = "" \/ error # "null")
  /\ spc = "idle"
  /\ attempts < limit
  /\ LET res == CleanupAudio(Refs, fault) IN
       /\ CommitCleanup(res, "start", {}, <<>>, attempts)
       /\ spc' = IF Suspended(res) THEN "cleanup"
                 ELSE IF res.at = "done" THEN "mint" ELSE "idle"
  /\ error' = "null" /\ status' = "Initializing..."
  /\ Did("StartClick", 0, FALSE)
  /\ UNCHANGED <<mounted, hasStarted, isConnected, timeLeft, isMicOn, transcript,
                 chan, otherRefs, envVars, sGen, genTok, epc, endClosure, pendingText,
                 decoding, timerOn, timerClosure, attempts, endGen, endTrigger,
                 endCount, completeCount, deliveredText, expiryLog>>

\* Catch without the teardown at line 335
CatchNoTeardown(g, currentConnectionId, fault, R) ==
  IF R.tok = currentConnectionId
  THEN /\ hasStarted' = SetState(hasStarted, FALSE)
       /\ error' = SetState(error, "Failed to start session.")
       /\ timerOn' = IF mounted THEN FALSE ELSE timerOn
       /\ ApplyRefs(R)
       /\ UNCHANGED <<relVars, cleanups>>
  ELSE /\ UNCHANGED <<hasStarted, error, timerOn, relVars, cleanups>>
       /\ ApplyRefs(R)

\* lines 330-337: the catch block of startSession, for the attempt g.  The
\* timer effect's cleanup (line 446) runs when hasStarted falls to false.
Catch(g, currentConnectionId, fault, R) ==
  IF R.tok = currentConnectionId
  THEN /\ hasStarted' = SetState(hasStarted, FALSE)
       /\ error' = SetState(error, "Failed to start session.")
       /\ timerOn' = IF mounted THEN FALSE ELSE timerOn
       /\ CommitCleanup(CleanupAudio(R, fault), "catch", {}, <<>>, g)
  ELSE /\ UNCHANGED <<hasStarted, error, timerOn, relVars, cleanups>>
       /\ ApplyRefs(R)

\* StartMint without the reset of the playback cursor at line 113
StartMintKeepCursor(fault, now) ==
  /\ spc = "mint"
  /\ now \in clock..MaxClock
  /\ clock' = now
  /\ attempts' = attempts + 1 /\ sGen' = attempts + 1
  /\ genTok' = [genTok EXCEPT ![attempts + 1] = now]
  /\ isEndedRef' = FALSE /\ nextStartTimeRef' = nextStartTimeRef /\ transcriptTextRef' = <<>>
  /\ transcript' = SetState(transcript, <<>>)
  /\ isConnected' = SetState(isConnected, FALSE)
  /\ timeLeft' = SetState(timeLeft, InitialTime)
  /\ LET R == [Refs EXCEPT !.tok = now, !.conn = FALSE] IN
       IF mediaSupported
       THEN /\ ApplyRefs(R)
            /\ status' = SetState(status, "Requesting microphone...")
            /\ spc' = "mic"
            /\ UNCHANGED <<hasStarted, error, timerOn, relVars, cleanups>>
       ELSE /\ Catch(attempts + 1, now, fault, R)
            /\ spc' = "idle"
            /\ UNCHANGED status
  /\ Did("StartMint", attempts + 1, FALSE)
  /\ received' = <<>>
  /\ UNCHANGED <<mounted, isMicOn, chan, outputAnalyserRef, isMicOnRef,
                 mediaSupported, codec, app, outTime, sent, scheduled, msgCount,
                 syncRender, epc, endClosure,
                 pendingText, decoding, timerClosure, endGen, endTrigger,
                 endCount, completeCount, deliveredText, expiryLog>>

\* StartMint without the setTranscript([]) of line 116
StartMintKeepLog(fault, now) ==
  /\ spc = "mint"
  /\ now \in clock..MaxClock
  /\ clock' = now
  /\ attempts' = attempts + 1 /\ sGen' = attempts + 1
  /\ genTok' = [genTok EXCEPT ![attempts + 1] = now]
  /\ isEndedRef' = FALSE /\ nextStartTimeRef' = 0 /\ transcriptTextRef' = <<>>
  /\ transcript' = transcript
  /\ isConnected' = SetState(isConnected, FALSE)
  /\ timeLeft' = SetState(timeLeft, InitialTime)
  /\ LET R == [Refs EXCEPT !.tok = now, !.conn = FALSE] IN
       IF mediaSupported
       THEN /\ ApplyRefs(R)
            /\ status' = SetState(status, "Requesting microphone...")
            /\ spc' = "mic"
            /\ UNCHANGED <<hasStarted, error, timerOn, relVars, cleanups>>
       ELSE /\ Catch(attempts + 1, now, fault, R)
            /\ spc' = "idle"
            /\ UNCHANGED status
  /\ Did("StartMint", attempts + 1, FALSE)
  /\ received' = <<>>
  /\ UNCHANGED <<mounted, isMicOn, chan, outputAnalyserRef, isMicOnRef,
                 mediaSupported, codec, app, outTime, sent, scheduled, msgCount,
                 syncRender, epc, endClosure,
                 pendingText, decoding, timerClosure, endGen, endTrigger,
                 endCount, completeCount, deliveredText, expiryLog>>

\* lines 108-126: mint the token, reset the session state, ask for the
\* microphone (or throw when getUserMedia is missing).
StartMint(fault, now) ==
  /\ spc = "mint"
  /\ now \in clock..MaxClock
  /\ clock' = now
  /\ attempts' = attempts + 1 /\ sGen' = attempts + 1
  /\ genTok' = [genTok EXCEPT ![attempts + 1] = now]
  /\ isEndedRef' = FALSE /\ nextStartTimeRef' = 0 /\ transcriptTextRef' = <<>>
  /\ transcript' = SetState(transcript, <<>>)
  /\ isConnected' = SetState(isConnected, FALSE)
  /\ timeLeft' = SetState(timeLeft, InitialTime)
  /\ LET R == [Refs EXCEPT !.tok = now, !.conn = FALSE] IN
       IF mediaSupported
       THEN /\ ApplyRefs(R)
            /\ status' = SetState(status, "Requesting microphone...")
            /\ spc' = "mic"
            /\ UNCHANGED <<hasStarted, error, timerOn, relVars, cleanups>>
       ELSE /\ Catch(attempts + 1, now, fault, R)
            /\ spc' = "idle"
            /\ UNCHANGED status
  /\ Did("StartMint", attempts + 1, FALSE)
  /\ received' = <<>>
  /\ UNCHANGED <<mounted, isMicOn, chan, outputAnalyserRef, isMicOnRef,
                 mediaSupported, codec, app, outTime, sent, scheduled, msgCount,
                 syncRender, epc, endClosure,
                 pendingText, decoding, timerClosure, endGen, endTrigger,
                 endCount, completeCount, deliveredText, expiryLog>>

\* Where a start attempt next awaits, given which audio contexts come up
\* suspended (lines 147 and 161).
StopAfterMic(suspOut, suspIn) ==
  IF suspOut THEN "outResume" ELSE IF suspIn THEN "inResume" ELSE "connect"
StopAfterOut(suspIn) == IF suspIn THEN "inResume" ELSE "connect"

\* startSession from one await (from) to the next (to), for attempt g:
\*   lines 140-144 when resumed from the microphone request,
\*   lines 151-158 when the output context is running,
\*   lines 165-322 when the input context is running.
\* vis: the canvas is mounted when startVisualizer looks for it (line 341),
\* which it is when React renders setHasStarted(true) synchronously.
\* The timer effect (lines 431-447) runs when hasStarted turns true.
Setup(g, from, to, vis) ==
  LET part1 == from = "mic"
      part2 == from \in {"mic", "outResume"} /\ to \in {"inResume", "connect"}
      part3 == to = "connect"
      started == part3 /\ mounted /\ ~hasStarted
  IN
  /\ streamRef' = IF part1 THEN g ELSE streamRef
  /\ audioContextRef' = IF part1 THEN g ELSE audioContextRef
  /\ outCtx' = IF part1 THEN [outCtx EXCEPT ![g] = "running"] ELSE outCtx
  /\ outputAnalyserRef' = IF part2 THEN audioContextRef' ELSE outputAnalyserRef
  /\ inputAudioContextRef' = IF part2 THEN g ELSE inputAudioContextRef
  /\ inCtx' = IF part2 THEN [inCtx EXCEPT ![g] = "running"] ELSE inCtx
  /\ sourceRef' = IF part3 THEN g ELSE sourceRef
  /\ processorRef' = IF part3 THEN g ELSE processorRef
  /\ gainRef' = IF part3 THEN g ELSE gainRef
  /\ graph' = IF part3 THEN [graph EXCEPT ![g] = "connected"] ELSE graph
  /\ status' = IF part3 THEN SetState(status, "Connecting to AI...") ELSE status
  /\ hasStarted' = IF part3 THEN SetState(hasStarted, TRUE) ELSE hasStarted
  /\ timerOn' = IF started /\ ~isEndedRef THEN TRUE ELSE timerOn
  /\ timerClosure' = IF started /\ ~isEndedRef THEN transcript ELSE timerClosure
  /\ visualizerFrameRef' = IF part3 /\ vis THEN g ELSE visualizerFrameRef
  /\ frame' = IF part3 /\ vis THEN [frame EXCEPT ![g] = "running"] ELSE frame
  /\ chan' = IF part3 THEN [chan EXCEPT ![g] = "connecting"] ELSE chan
  /\ spc' = to

\* What every continuation of startSession leaves alone.
StartFrame ==
  UNCHANGED <<mounted, isConnected, timeLeft, isMicOn, transcript,
              nextStartTimeRef, transcriptTextRef, isMicOnRef, isEndedRef,
              envVars, sGen, genTok, epc, endClosure, pendingText, decoding,
              attempts, endGen, endTrigger, endCount, completeCount,
              deliveredText, expiryLog>>

\* startSession throws in a continuation: run the catch block.
Throw(fault) ==
  /\ Catch(sGen, genTok[sGen], fault, Refs)
  /\ spc' = "idle"
  /\ UNCHANGED <<status, chan, outputAnalyserRef, timerClosure>>
  /\ StartFrame

\* MicResolve with the test at line 136 left out
MicResolveUnchecked(suspOut, suspIn) ==
  /\ spc = "mic"
  /\ stream' = [stream EXCEPT ![sGen] = "live"]
  /\ Setup(sGen, "mic", StopAfterMic(suspOut, suspIn), syncRender /\ mounted)
  /\ UNCHANGED <<error, connectionIdRef, activeSessionRef, isConnectedRef>>
  /\ Did("MicResolve", sGen, connectionIdRef # genTok[sGen])
  /\ UNCHANGED <<closeCalls, cleanups>>
  /\ StartFrame

\* lines 126-149: getUserMedia resolved
MicResolve(suspOut, suspIn) ==
  /\ spc = "mic"
  /\ IF connectionIdRef # genTok[sGen]
     THEN /\ stream' = [stream EXCEPT ![sGen] = "stopped"]
          /\ spc' = "idle"
          /\ UNCHANGED <<hasStarted, status, error, teardownRefs,
                         outputAnalyserRef, chan, outCtx, inCtx, graph, frame,
                         timerOn, timerClosure>>
     ELSE /\ stream' = [stream EXCEPT ![sGen] = "live"]
          /\ Setup(sGen, "mic", StopAfterMic(suspOut, suspIn), syncRender /\ mounted)
          /\ UNCHANGED <<error, connectionIdRef, activeSessionRef,
                         isConnectedRef>>
  /\ Did("MicResolve", sGen, connectionIdRef # genTok[sGen])
  /\ UNCHANGED <<closeCalls, cleanups>>
  /\ StartFrame

\* line 126: getUserMedia rejected (permission denied, no device)
MicReject(fault) ==
  /\ spc = "mic"
  /\ Throw(fault)
  /\ Did("MicReject", sGen, connectionIdRef # genTok[sGen])

\* lines 148-162: the output context's resume() resolved; line 151
\* dereferences audioContextRef.current and throws when it is null
OutResumeDone(suspIn, fault) ==
  /\ spc = "outResume"
  /\ IF audioContextRef = 0
     THEN Throw(fault)
     ELSE /\ Setup(sGen, "outResume", StopAfterOut(suspIn), syncRender /\ mounted)
          /\ UNCHANGED <<error, connectionIdRef, activeSessionRef,
                         isConnectedRef, stream, closeCalls, cleanups>>
          /\ StartFrame
  /\ Did("OutResumeDone", sGen, connectionIdRef # genTok[sGen])

\* line 148: the output context's resume() rejected
OutResumeReject(fault) ==
  /\ spc = "outResume"
  /\ Throw(fault)
  /\ Did("OutResumeReject", sGen, connectionIdRef # genTok[sGen])

\* lines 162-322: the input context's resume() resolved.  throws: creating
\* the source node fails (line 166), which a closed context may do.
InResumeDone(throws, fault) ==
  /\ spc = "inResume"
  /\ throws => inCtx[sGen] # "running"
  /\ IF throws
     THEN Throw(fault)
     ELSE /\ Setup(sGen, "inResume", "connect", syncRender /\ mounted)
          /\ UNCHANGED <<error, connectionIdRef, activeSessionRef,
                         isConnectedRef, stream, closeCalls, cleanups>>
          /\ StartFrame
  /\ Did("InResumeDone", sGen, connectionIdRef # genTok[sGen])

\* line 162: the input context's resume() rejected
InResumeReject(fault) ==
  /\ spc = "inResume"
  /\ Throw(fault)
  /\ Did("InResumeReject", sGen, connectionIdRef # genTok[sGen])

\* ConnectResolve without the close of line 326
ConnectResolveNoClose ==
  /\ spc = "connect"
  /\ IF connectionIdRef = genTok[sGen]
     THEN /\ activeSessionRef' = sGen
          /\ UNCHANGED <<chan, closeCalls>>
     ELSE UNCHANGED <<chan, closeCalls, activeSessionRef>>
  /\ spc' = "idle"
  /\ last' = [op |-> "connectResolved", stale |-> FALSE]
  /\ UNCHANGED <<hasStarted, status, error, connectionIdRef, streamRef,
                 audioContextRef, inputAudioContextRef, processorRef, sourceRef,
                 gainRef, visualizerFrameRef, isConnectedRef, outputAnalyserRef,
                 stream, outCtx, inCtx, graph, frame, cleanups,
                 timerOn, timerClosure>>
  /\ StartFrame

\* lines 322-328: live.connect resolved with the channel handle; the step
\* is recorded in last as "connectResolved"
ConnectResolve ==
  /\ spc = "connect"
  /\ IF connectionIdRef = genTok[sGen]
     THEN /\ activeSessionRef' = sGen
          /\ UNCHANGED <<chan, closeCalls>>
     ELSE /\ UNCHANGED chan
          /\ closeCalls' = [closeCalls EXCEPT ![<<"chan", sGen>>] = @ + 1]
          /\ UNCHANGED activeSessionRef
  /\ spc' = "idle"
  /\ last' = [op |-> "connectResolved", stale |-> FALSE]
  /\ UNCHANGED <<hasStarted, status, error, connectionIdRef, streamRef,
                 audioContextRef, inputAudioContextRef, processorRef, sourceRef,
                 gainRef, visualizerFrameRef, isConnectedRef, outputAnalyserRef,
                 stream, outCtx, inCtx, graph, frame, cleanups,
                 timerOn, timerClosure>>
  /\ StartFrame

\* line 322: live.connect rejected.  A channel that has not opened will not
\* open any more ("refused": its close and error events may still come); one
\* that has opened stays open, with no handle to close it by.
ConnectReject(fault) ==
  /\ spc = "connect"
  /\ Catch(sGen, genTok[sGen], fault, Refs)
  /\ chan' = [chan EXCEPT ![sGen] = IF @ = "connecting" THEN "refused" ELSE @]
  /\ spc' = "idle"
  /\ Did("ConnectReject", sGen, connectionIdRef # genTok[sGen])
  /\ UNCHANGED <<status, outputAnalyserRef, timerClosure>>
  /\ StartFrame

\* ---------------------------------------------------- channel callbacks ---
\* A callback of attempt g compares the token its closure captured,
\* genTok[g], with connectionIdRef.
Stale(g) == connectionIdRef # genTok[g]

DecodeFrame ==
  UNCHANGED <<mounted, hasStarted, timeLeft, isMicOn, connectionIdRef,
              activeSessionRef, streamRef, audioContextRef,
              inputAudioContextRef, processorRef, sourceRef, gainRef,
              visualizerFrameRef, outputAnalyserRef, isMicOnRef, isEndedRef,
              stream, outCtx, inCtx, graph, frame, closeCalls, mediaSupported, codec, app,
              syncRender, clock, spc, sGen, genTok, cleanups, epc,
              endClosure, pendingText, timerOn, timerClosure, attempts, endGen,
              endTrigger, endCount, completeCount, deliveredText, expiryLog>>
CallbackFrame == DecodeFrame /\ UNCHANGED outTime

\* OnOpen with line 248 left out
OnOpenUnchecked(g) ==
  /\ chan[g] = "connecting"
  /\ chan' = [chan EXCEPT ![g] = "open"]
  /\ isConnectedRef' = TRUE
  /\ isConnected' = SetState(isConnected, TRUE)
  /\ status' = SetState(status, "Interview in Progress")
  /\ Did("onopen", g, Stale(g))
  /\ UNCHANGED <<error, transcript, nextStartTimeRef, transcriptTextRef, sent,
                 scheduled, msgCount, received, decoding>>
  /\ CallbackFrame

\* lines 247-254
OnOpen(g) ==
  /\ chan[g] = "connecting"
  /\ chan' = [chan EXCEPT ![g] = "open"]
  /\ IF ~Stale(g)
     THEN /\ isConnectedRef' = TRUE
          /\ isConnected' = SetState(isConnected, TRUE)
          /\ status' = SetState(status, "Interview in Progress")
     ELSE UNCHANGED <<isConnectedRef, isConnected, status>>
  /\ Did("onopen", g, Stale(g))
  /\ UNCHANGED <<error, transcript, nextStartTimeRef, transcriptTextRef, sent,
                 scheduled, msgCount, received, decoding>>
  /\ CallbackFrame

\* lines 301-307
OnClose(g) ==
  /\ chan[g] \in {"connecting", "open", "refused"}
  /\ chan' = [chan EXCEPT ![g] = "closed"]
  /\ IF ~Stale(g)
     THEN /\ isConnectedRef' = FALSE
          /\ isConnected' = SetState(isConnected, FALSE)
     ELSE UNCHANGED <<isConnectedRef, isConnected>>
  /\ Did("onclose", g, Stale(g))
  /\ UNCHANGED <<status, error, transcript, nextStartTimeRef, transcriptTextRef,
                 sent, scheduled, msgCount, received, decoding>>
  /\ CallbackFrame

\* OnError treating the error as fatal to the attempt, as the catch block
\* of startSession does
OnErrorFatal(g) ==
  /\ chan[g] \in {"connecting", "open", "refused"}
  /\ UNCHANGED chan
  /\ IF ~Stale(g)
     THEN /\ isConnectedRef' = FALSE
          /\ isConnected' = SetState(isConnected, FALSE)
          /\ error' = SetState(error, "Connection interrupted.")
          /\ hasStarted' = SetState(hasStarted, FALSE)
          /\ timerOn' = IF mounted THEN FALSE ELSE timerOn
     ELSE UNCHANGED <<isConnectedRef, isConnected, error, hasStarted, timerOn>>
  /\ Did("onerror", g, Stale(g))
  /\ UNCHANGED <<status, transcript, nextStartTimeRef, transcriptTextRef, sent,
                 scheduled, msgCount, received, decoding, outTime>>
  /\ UNCHANGED <<mounted, timeLeft, isMicOn, connectionIdRef,
                 activeSessionRef, streamRef, audioContextRef,
                 inputAudioContextRef, processorRef, sourceRef, gainRef,
                 visualizerFrameRef, outputAnalyserRef, isMicOnRef, isEndedRef,
                 stream, outCtx, inCtx, graph, frame, closeCalls,
                 mediaSupported, codec, app, syncRender, clock, spc, sGen, genTok,
                 cleanups, epc, endClosure, pendingText, timerClosure,
                 attempts, endGen, endTrigger, endCount, completeCount,
                 deliveredText, expiryLog>>

\* lines 308-317
OnError(g) ==
  /\ chan[g] \in {"connecting", "open", "refused"}
  /\ UNCHANGED chan
  /\ IF ~Stale(g)
     THEN /\ isConnectedRef' = FALSE
          /\ isConnected' = SetState(isConnected, FALSE)
          /\ error' = SetState(error, "Connection interrupted.")
     ELSE UNCHANGED <<isConnectedRef, isConnected, error>>
  /\ Did("onerror", g, Stale(g))
  /\ UNCHANGED <<status, transcript, nextStartTimeRef, transcriptTextRef, sent,
                 scheduled, msgCount, received, decoding>>
  /\ CallbackFrame

\* Inbound messages: an optional audio payload (well-formed or with an odd
\* byte count), an optional input fragment, an optional output fragment.
Msg(audio, inT, outT) == [audio |-> audio, inT |-> inT, outT |-> outT]
Messages ==
  {Msg("ok", <<"a">>, <<>>), Msg("none", <<>>, <<"b">>), Msg("bad", <<"a">>, <<>>)}

\* lines 274 and 286: the transcription fragments one message carries, the
\* candidate's before the interviewer's
Fragments(m) ==
  (IF m.inT # <<>> THEN <<[role |-> "user", text |-> m.inT]>> ELSE <<>>)
    \o (IF m.outT # <<>> THEN <<[role |-> "model", text |-> m.outT]>> ELSE <<>>)

\* Transcribe without line 288: an interviewer fragment goes to the log only
TranscribeLogOnly(m) ==
  LET raw1 == IF m.inT # <<>> THEN transcriptTextRef \o m.inT ELSE transcriptTextRef
      log1 == IF m.inT # <<>> THEN AppendFragment(transcript, "user", m.inT)
              ELSE transcript
      log2 == IF m.outT # <<>> THEN AppendFragment(log1, "model", m.outT) ELSE log1
  IN /\ transcriptTextRef' = raw1
     /\ transcript' = SetState(transcript, log2)

\* lines 274-296: the transcription part of onmessage
Transcribe(m) ==
  LET raw1 == IF m.inT # <<>> THEN transcriptTextRef \o m.inT ELSE transcriptTextRef
      log1 == IF m.inT # <<>> THEN AppendFragment(transcript, "user", m.inT)
              ELSE transcript
      raw2 == IF m.outT # <<>> THEN raw1 \o m.outT ELSE raw1
      log2 == IF m.outT # <<>> THEN AppendFragment(log1, "model", m.outT) ELSE log1
  IN /\ transcriptTextRef' = raw2
     /\ transcript' = SetState(transcript, log2)

\* lines 255-263 (and 274-296 when there is no audio to decode).  A handler
\* suspended at line 263 carries the arrival number of its message (seq).
OnMessage(g, m, budget) ==
  /\ chan[g] = "open"
  /\ ~Stale(g) => msgCount < budget
  /\ msgCount' = IF Stale(g) THEN msgCount ELSE msgCount + 1
  /\ received' = IF Stale(g) THEN received ELSE received \o Fragments(m)
  /\ IF Stale(g)
     THEN UNCHANGED <<transcript, transcriptTextRef, decoding>>
     ELSE IF m.audio # "none" /\ audioContextRef # 0 /\ outputAnalyserRef # 0
          THEN /\ decoding' = Append(decoding, [gen |-> g, m |-> m,
                                                ctx |-> audioContextRef,
                                                seq |-> msgCount + 1])
               /\ UNCHANGED <<transcript, transcriptTextRef>>
          ELSE /\ Transcribe(m)
               /\ UNCHANGED decoding
  /\ Did("onmessage", g, Stale(g))
  /\ UNCHANGED <<isConnected, status, error, isConnectedRef, nextStartTimeRef,
                 chan, sent, scheduled>>
  /\ CallbackFrame

\* MsgDecoded scheduling at the cursor without the clamp to the clock
MsgDecodedNoClamp(now) ==
  /\ decoding # <<>>
  /\ LET h == Head(decoding)
         startTime == nextStartTimeRef
     IN /\ now \in outTime[h.ctx]..MaxOutTime
        /\ outTime' = [outTime EXCEPT ![h.ctx] = now]
        /\ decoding' = Tail(decoding)
        /\ IF h.m.audio = "bad"
           THEN UNCHANGED <<scheduled, nextStartTimeRef, transcript,
                            transcriptTextRef>>
           ELSE /\ scheduled' = Append(scheduled,
                      [gen |-> h.gen, ctx |-> h.ctx, start |-> startTime,
                       seq |-> h.seq])
                /\ nextStartTimeRef' = startTime + 1
                /\ Transcribe(h.m)
        /\ Did("decoded", h.gen, Stale(h.gen))
  /\ UNCHANGED <<isConnected, status, error, isConnectedRef, chan, sent,
                 msgCount, received>>
  /\ DecodeFrame

\* MsgDecoded with a decoder that accepts a chunk of odd byte count
MsgDecodedNoReject(now) ==
  /\ decoding # <<>>
  /\ LET h == Head(decoding)
         startTime == Max(now, nextStartTimeRef)
     IN /\ now \in outTime[h.ctx]..MaxOutTime
        /\ outTime' = [outTime EXCEPT ![h.ctx] = now]
        /\ decoding' = Tail(decoding)
        /\ IF FALSE
           THEN UNCHANGED <<scheduled, nextStartTimeRef, transcript,
                            transcriptTextRef>>
           ELSE /\ scheduled' = Append(scheduled,
                      [gen |-> h.gen, ctx |-> h.ctx, start |-> startTime,
                       seq |-> h.seq])
                /\ nextStartTimeRef' = startTime + 1
                /\ Transcribe(h.m)
        /\ Did("decoded", h.gen, Stale(h.gen))
  /\ UNCHANGED <<isConnected, status, error, isConnectedRef, chan, sent,
                 msgCount, received>>
  /\ DecodeFrame

\* MsgDecoded resuming the handler that was suspended last, not the one
\* suspended first
MsgDecodedLastFirst(now) ==
  /\ decoding # <<>>
  /\ LET h == decoding[Len(decoding)]
         startTime == Max(now, nextStartTimeRef)
     IN /\ now \in outTime[h.ctx]..MaxOutTime
        /\ outTime' = [outTime EXCEPT ![h.ctx] = now]
        /\ decoding' = SubSeq(decoding, 1, Len(decoding) - 1)
        /\ IF h.m.audio = "bad"
           THEN UNCHANGED <<scheduled, nextStartTimeRef, transcript,
                            transcriptTextRef>>
           ELSE /\ scheduled' = Append(scheduled,
                      [gen |-> h.gen, ctx |-> h.ctx, start |-> startTime,
                       seq |-> h.seq])
                /\ nextStartTimeRef' = startTime + 1
                /\ Transcribe(h.m)
        /\ Did("decoded", h.gen, Stale(h.gen))
  /\ UNCHANGED <<isConnected, status, error, isConnectedRef, chan, sent,
                 msgCount, received>>
  /\ DecodeFrame

\* lines 263-299: onmessage resumed after await decodeAudioData; the decoder
\* throws on an odd byte count and the catch at line 297 ends the handler.
MsgDecoded(now) ==
  /\ decoding # <<>>
  /\ LET h == Head(decoding)
         startTime == Max(now, nextStartTimeRef)
     IN /\ now \in outTime[h.ctx]..MaxOutTime
        /\ outTime' = [outTime EXCEPT ![h.ctx] = now]
        /\ decoding' = Tail(decoding)
        /\ IF h.m.audio = "bad"
           THEN UNCHANGED <<scheduled, nextStartTimeRef, transcript,
                            transcriptTextRef>>
           ELSE /\ scheduled' = Append(scheduled,
                      [gen |-> h.gen, ctx |-> h.ctx, start |-> startTime,
                       seq |-> h.seq])
                /\ nextStartTimeRef' = startTime + 1
                /\ Transcribe(h.m)
        /\ Did("decoded", h.gen, Stale(h.gen))
  /\ UNCHANGED <<isConnected, status, error, isConnectedRef, chan, sent,
                 msgCount, received>>
  /\ DecodeFrame

\* OnAudioProcess without the mute test of line 177
OnAudioProcessNoMuteGate(g, sendFails, budget) ==
  /\ graph[g] \in {"connected", "disconnected"}
  /\ LET sends == ~Stale(g) /\ isConnectedRef
                  /\ activeSessionRef # 0
     IN /\ (sends /\ ~sendFails) => sent[activeSessionRef] < budget
        /\ sent' = IF sends /\ ~sendFails
                   THEN [sent EXCEPT ![activeSessionRef] = @ + 1]
                   ELSE sent
  /\ Did("onaudioprocess", g, Stale(g))
  /\ UNCHANGED <<uiVars, teardownRefs, otherRefs, resVars, mediaSupported, codec, app,
                 syncRender, clock, outTime, scheduled, msgCount, received, procVars,
                 attempts, endGen, endTrigger, endCount, completeCount,
                 deliveredText, expiryLog>>

\* OnAudioProcess treating a failed send as the loss of the connection
OnAudioProcessFailDisconnects(g, sendFails, budget) ==
  /\ graph[g] \in {"connected", "disconnected"}
  /\ LET sends == ~Stale(g) /\ isConnectedRef /\ isMicOnRef
                  /\ activeSessionRef # 0
     IN /\ (sends /\ ~sendFails) => sent[activeSessionRef] < budget
        /\ sent' = IF sends /\ ~sendFails
                   THEN [sent EXCEPT ![activeSessionRef] = @ + 1]
                   ELSE sent
        /\ last' = IF sends /\ sendFails
                   THEN [op |-> "sendFailed", stale |-> FALSE]
                   ELSE IF Stale(g) THEN [op |-> "onaudioprocess", stale |-> TRUE]
                   ELSE [op |-> "other", stale |-> FALSE]
        /\ isConnectedRef' = IF sends /\ sendFails THEN FALSE ELSE isConnectedRef
        /\ isConnected' = IF sends /\ sendFails THEN SetState(isConnected, FALSE)
                          ELSE isConnected
  /\ UNCHANGED <<mounted, hasStarted, timeLeft, isMicOn, status, error,
                 transcript, connectionIdRef, activeSessionRef, streamRef,
                 audioContextRef, inputAudioContextRef, processorRef,
                 sourceRef, gainRef, visualizerFrameRef, otherRefs, resVars,
                 mediaSupported, codec, app, syncRender, clock, outTime, scheduled,
                 msgCount, received, procVars, attempts, endGen, endTrigger,
                 endCount, completeCount, deliveredText, expiryLog>>

\* lines 176-206: the capture callback of attempt g's processor node
\* sendFails: sendRealtimeInput throws (caught at line 203); the step is
\* then recorded in last as "sendFailed"
OnAudioProcess(g, sendFails, budget) ==
  /\ graph[g] \in {"connected", "disconnected"}
  /\ LET sends == ~Stale(g) /\ isConnectedRef /\ isMicOnRef
                  /\ activeSessionRef # 0
     IN /\ (sends /\ ~sendFails) => sent[activeSessionRef] < budget
        /\ sent' = IF sends /\ ~sendFails
                   THEN [sent EXCEPT ![activeSessionRef] = @ + 1]
                   ELSE sent
        /\ last' = IF sends /\ sendFails
                   THEN [op |-> "sendFailed", stale |-> FALSE]
                   ELSE IF Stale(g) THEN [op |-> "onaudioprocess", stale |-> TRUE]
                   ELSE [op |-> "other", stale |-> FALSE]
  /\ UNCHANGED <<uiVars, teardownRefs, otherRefs, resVars, mediaSupported, codec, app,
                 syncRender, clock, outTime, scheduled, msgCount, received, procVars,
                 attempts, endGen, endTrigger, endCount, completeCount,
                 deliveredText, expiryLog>>

\* lines 569-575 and 47-50: the mute button and the effect that mirrors it
ToggleMic ==
  /\ mounted /\ hasStarted /\ isConnected
  /\ isMicOn' = ~isMicOn
  /\ isMicOnRef' = ~isMicOn
  /\ Did("ToggleMic", 0, FALSE)
  /\ UNCHANGED <<mounted, hasStarted, isConnected, timeLeft, status, error,
                 transcript, teardownRefs, outputAnalyserRef, nextStartTimeRef,
                 transcriptTextRef, isEndedRef, resVars, envVars, procVars,
                 attempts, endGen, endTrigger, endCount, completeCount,
                 deliveredText, expiryLog>>

\* --------------------------------------------------- ending the session ---
EndFrame ==
  UNCHANGED <<mounted, hasStarted, isConnected, isMicOn, error, transcript,
              chan, otherRefsButEnded, envVars, spc, sGen, genTok, pendingText,
              decoding, timerClosure, attempts, completeCount, deliveredText>>

\* HandleEndInterview with line 414 left out
HandleEndInterviewUnguarded(closure, trigger, fault) ==
  /\ isEndedRef' = TRUE
  /\ status' = SetState(status, "Finalizing...")
  /\ endClosure' = closure
  /\ endGen' = attempts
  /\ endTrigger' = trigger
  /\ endCount' = [endCount EXCEPT ![attempts] = @ + 1]
  /\ LET res == CleanupAudio(Refs, fault) IN
       /\ CommitCleanup(res, "end", {}, <<>>, attempts)
       /\ epc' = IF Suspended(res) THEN "cleanup"
                 ELSE IF res.at = "done" THEN "post" ELSE "failed"

\* lines 413-418: handleEndInterview up to its await.  closure is the
\* transcript state captured by the render that created the handler.
HandleEndInterview(closure, trigger, fault) ==
  IF isEndedRef
  THEN /\ NoCleanup
       /\ UNCHANGED <<isEndedRef, status, epc, endClosure, endGen, endTrigger,
                      endCount>>
  ELSE /\ isEndedRef' = TRUE
       /\ status' = SetState(status, "Finalizing...")
       /\ endClosure' = closure
       /\ endGen' = attempts
       /\ endTrigger' = trigger
       /\ endCount' = [endCount EXCEPT ![attempts] = @ + 1]
       /\ LET res == CleanupAudio(Refs, fault) IN
            /\ CommitCleanup(res, "end", {}, <<>>, attempts)
            /\ epc' = IF Suspended(res) THEN "cleanup"
                      ELSE IF res.at = "done" THEN "post" ELSE "failed"

\* lines 578-583: the End Interview button, shown while hasStarted
EndClick(fault) ==
  /\ mounted /\ hasStarted
  /\ HandleEndInterview(transcript, "click", fault)
  /\ Did("EndClick", attempts, FALSE)
  /\ UNCHANGED <<timeLeft, timerOn, expiryLog>>
  /\ EndFrame

\* TimerTick with line 439 left out: the interval is cleared at expiry and
\* handleEndInterview is not called.
TimerTickNoEnd(fault) ==
  /\ timerOn
  /\ IF timeLeft <= 1
     THEN timerOn' = FALSE /\ timeLeft' = 0
     ELSE timeLeft' = timeLeft - 1 /\ UNCHANGED timerOn
  /\ NoCleanup
  /\ UNCHANGED <<expiryLog, isEndedRef, status, epc, endClosure, endGen,
                 endTrigger, endCount>>
  /\ Did("TimerTick", attempts, FALSE)
  /\ EndFrame

\* TimerTick without the floor at lines 437-441: the interval keeps
\* counting down.
TimerTickNoFloor(fault) ==
  /\ timerOn
  /\ timeLeft' = timeLeft - 1
  /\ NoCleanup
  /\ UNCHANGED <<timerOn, expiryLog, isEndedRef, status, epc, endClosure,
                 endGen, endTrigger, endCount>>
  /\ Did("TimerTick", attempts, FALSE)
  /\ EndFrame

\* lines 435-444: one tick of the countdown interval
TimerTick(fault) ==
  /\ timerOn
  /\ IF timeLeft <= 1
     THEN /\ timerOn' = FALSE
          /\ timeLeft' = 0
          /\ expiryLog' = IF isEndedRef THEN expiryLog ELSE transcript
          /\ HandleEndInterview(timerClosure, "timer", fault)
     ELSE /\ timeLeft' = timeLeft - 1
          /\ NoCleanup
          /\ UNCHANGED <<timerOn, expiryLog, isEndedRef, status, epc,
                         endClosure, endGen, endTrigger, endCount>>
  /\ Did("TimerTick", attempts, FALSE)
  /\ EndFrame

\* lines 419-428: handleEndInterview resumed after await cleanupAudio()
EndPost ==
  /\ epc = "post"
  /\ isConnected' = SetState(isConnected, FALSE)
  /\ pendingText' = FinalTranscript(endClosure, transcriptTextRef)
  /\ epc' = "timeout"
  /\ Did("EndPost", endGen, FALSE)
  /\ UNCHANGED <<mounted, hasStarted, timeLeft, isMicOn, status, error,
                 transcript, teardownRefs, otherRefs, resVars, envVars, spc,
                 sGen, genTok, cleanups, endClosure, decoding, timerOn,
                 timerClosure, attempts, endGen, endTrigger, endCount,
                 completeCount, deliveredText, expiryLog>>

\* lines 449-453 and 446: the component is unmounted; its effects clean up
Unmount(fault) ==
  IF mounted
  THEN /\ mounted' = FALSE
       /\ timerOn' = FALSE
       /\ CommitCleanup(CleanupAudio(Refs, fault), "unmount", {}, <<>>, attempts)
  ELSE /\ NoCleanup
       /\ UNCHANGED <<mounted, timerOn>>

UnmountFrame ==
  UNCHANGED <<hasStarted, isConnected, timeLeft, isMicOn, status, error,
              transcript, chan, otherRefs, mediaSupported, syncRender, clock,
              outTime, sent, scheduled, msgCount, received, codec, spc, sGen,
              genTok, endClosure, pendingText, decoding, timerClosure,
              attempts, endGen, endTrigger, endCount, expiryLog>>

\* part_000 lines 39-45: App.handleInterviewComplete up to its await; the
\* report is requested for the transcript, or for the substitute text when
\* the transcript is the empty string.
HandleInterviewComplete(text) ==
  IF app.analysis = "null" THEN UNCHANGED app
  ELSE app' = [app EXCEPT !.isLoading = TRUE, !.transcriptData = text,
                          !.step = "REPORT", !.pc = "pending",
                          !.reportInput = IF text # <<>> THEN text
                                          ELSE <<"No conversation recorded.">>]

\* lines 426-428: the timeout fires onComplete; App.handleInterviewComplete
\* (part_000 lines 39-43) switches to the report step, which unmounts the
\* session component.
OnCompleteFire(fault) ==
  /\ epc = "timeout"
  /\ epc' = "done"
  /\ completeCount' = completeCount + 1
  /\ deliveredText' = pendingText
  /\ HandleInterviewComplete(pendingText)
  /\ Unmount(fault)
  /\ Did("onComplete", endGen, FALSE)
  /\ UnmountFrame

\* A suspended cleanupAudio invocation resumes after its await and runs to
\* its next await or its end; the function awaiting it is then resumed.
CleanupResume(c, fault) ==
  /\ c \in cleanups
  /\ LET res == CleanupContinue(c, Refs, fault) IN
       /\ CommitCleanup(res, c.caller, {c}, c.log, c.born)
       /\ spc' = IF c.caller = "start" /\ ~Suspended(res)
                 THEN (IF res.at = "done" THEN "mint" ELSE "idle")
                 ELSE spc
       /\ epc' = IF c.caller = "end" /\ ~Suspended(res)
                 THEN (IF res.at = "done" THEN "post" ELSE "failed")
                 ELSE epc
  /\ Did("CleanupResume", 0, FALSE)
  /\ UNCHANGED <<uiVars, chan, otherRefs, envVars, sGen, genTok, endClosure,
                 pendingText, decoding, timerOn, timerClosure, attempts, endGen,
                 endTrigger, endCount, completeCount, deliveredText, expiryLog>>

\* -------------------------------------------------------- specification ---
\* The session's life cycle: starting, the channel's connection events,
\* ending, teardown.  limit bounds the start requests.
Lifecycle(faults, limit) ==
  \/ \E f \in faults : StartClick(f, limit)
  \/ \E f \in faults, now \in 1..MaxClock : StartMint(f, now)
  \/ \E so, si \in BOOLEAN : MicResolve(so, si)
  \/ \E f \in faults : MicReject(f)
  \/ \E si \in BOOLEAN, f \in faults : OutResumeDone(si, f)
  \/ \E f \in faults : OutResumeReject(f)
  \/ \E throws \in BOOLEAN, f \in faults : InResumeDone(throws, f)
  \/ \E f \in faults : InResumeReject(f)
  \/ ConnectResolve
  \/ \E f \in faults : ConnectReject(f)
  \/ \E g \in Gens : OnOpen(g)
  \/ \E g \in Gens : OnClose(g)
  \/ \E g \in Gens : OnError(g)
  \/ \E f \in faults : EndClick(f)
  \/ \E f \in faults : TimerTick(f)
  \/ EndPost
  \/ \E f \in faults : OnCompleteFire(f)
  \/ \E c \in cleanups, f \in faults : CleanupResume(c, f)

\* Inbound messages and captured blocks.  The budgets bound the messages
\* that are handled and the blocks that are sent; a message or block that
\* is dropped is always deliverable.
Deliveries(msgs, frames) ==
  \/ \E g \in Gens, m \in Messages : OnMessage(g, m, msgs)
  \/ \E g \in Gens, sf \in BOOLEAN : OnAudioProcess(g, sf, frames)

NoFaults == {"none"}

\* One session attempt with its audio and transcript traffic.
Next ==
  \/ Lifecycle(NoFaults, MaxStarts)
  \/ Deliveries(MaxMsgs, MaxFrames)
  \/ \E now \in 0..MaxOutTime : MsgDecoded(now)
  \/ ToggleMic

Spec == Init /\ [][Next]_vars

\* Failed attempts and retries; messages and blocks are delivered only to
\* be dropped.
NextRestart ==
  \/ Lifecycle(NoFaults, MaxAttempts)
  \/ Deliveries(0, 0)

SpecRestart == Init /\ [][NextRestart]_vars

\* One session attempt in which every release step of teardown may fail.
NextFault == Lifecycle(AllFaults, MaxStarts)

SpecFault == Init /\ [][NextFault]_vars

\* One session attempt in which every pending await and timer completes:
\* close() promises settle, handleEndInterview resumes, its timeout fires.
\* Messages and blocks are delivered only to be dropped.
NextFair ==
  \/ Lifecycle(NoFaults, MaxStarts)
  \/ Deliveries(0, 0)

FairSpec ==
  /\ Init /\ [][NextFair]_vars
  /\ WF_vars(\E c \in cleanups : CleanupResume(c, "none"))
  /\ WF_vars(EndPost)
  /\ WF_vars(OnCompleteFire("none"))

\* The messages that carry a decodable audio chunk.
AudioMessages == {m \in Messages : m.audio = "ok"}

\* Failed attempts and retries with audio traffic, every attempt minted at
\* a Date.now() of its own.  decodeAudioData (utils/audio.ts lines 37-46)
\* has no await of its own, so the promise awaited at line 263 is already
\* settled and the handler resumes in the microtask checkpoint of the task
\* that delivered the message, before any other event, timer or click is
\* dispatched.  Messages of a superseded attempt stay deliverable.
NextReplay ==
  \/ /\ decoding = <<>>
     /\ \/ StartClick("none", MaxAttempts)
        \/ StartMint("none", attempts + 1)
        \/ \E so, si \in BOOLEAN : MicResolve(so, si)
        \/ MicReject("none")
        \/ \E si \in BOOLEAN : OutResumeDone(si, "none")
        \/ OutResumeReject("none")
        \/ \E throws \in BOOLEAN : InResumeDone(throws, "none")
        \/ InResumeReject("none")
        \/ ConnectResolve
        \/ ConnectReject("none")
        \/ \E g \in Gens : OnOpen(g)
        \/ \E g \in Gens : OnClose(g)
        \/ \E g \in Gens : OnError(g)
        \/ EndClick("none")
        \/ TimerTick("none")
        \/ EndPost
        \/ OnCompleteFire("none")
        \/ \E c \in cleanups : CleanupResume(c, "none")
        \/ \E g \in Gens, m \in AudioMessages : OnMessage(g, m, MaxMsgs)
  \/ \E now \in 0..MaxOutTime : MsgDecoded(now)

SpecReplay == Init /\ [][NextReplay]_vars

\* Failed attempts and retries with every kind of message, every attempt
\* minted at a Date.now() of its own; the handler of a message resumes from
\* its decode before anything else is dispatched (see NextReplay).  The
\* clocks of the output contexts stand still.
NextTranscript ==
  \/ /\ decoding = <<>>
     /\ \/ StartClick("none", MaxAttempts)
        \/ StartMint("none", attempts + 1)
        \/ \E so, si \in BOOLEAN : MicResolve(so, si)
        \/ MicReject("none")
        \/ \E si \in BOOLEAN : OutResumeDone(si, "none")
        \/ OutResumeReject("none")
        \/ \E throws \in BOOLEAN : InResumeDone(throws, "none")
        \/ InResumeReject("none")
        \/ ConnectResolve
        \/ ConnectReject("none")
        \/ \E g \in Gens : OnOpen(g)
        \/ \E g \in Gens : OnClose(g)
        \/ \E g \in Gens : OnError(g)
        \/ EndClick("none")
        \/ TimerTick("none")
        \/ EndPost
        \/ OnCompleteFire("none")
        \/ \E c \in cleanups : CleanupResume(c, "none")
        \/ \E g \in Gens, m \in Messages : OnMessage(g, m, MaxMsgs)
  \/ MsgDecoded(0)

SpecTranscript == Init /\ [][NextTranscript]_vars

\* ------------------------------------------------------ utils/audio.ts ---
\* A sample is the numerator of a fraction over SampleDen; a decoded sample
\* is the numerator of a fraction over DecodeScale.  Every grid value is a
\* float32, and its products with the scales are exact in a double.
NegScale == 32768      \* 0x8000, line 24
PosScale == 32767      \* 0x7FFF, line 24
DecodeScale == 32768   \* 32768.0, line 13
SampleDen == 2 * DecodeScale
MaxFrameLen == 2       \* samples in one frame
SampleGrid ==
  {-SampleDen, 1 - SampleDen, -1, 0, 1, DecodeScale, (3 * SampleDen) \div 4 + 1,
   SampleDen - 1, SampleDen}
Frames == UNION {[1..n -> SampleGrid] : n \in 1..MaxFrameLen}

\* line 23: Math.max(-1, Math.min(1, data[i]))
Clamp(n) == IF n < -SampleDen THEN -SampleDen
            ELSE IF n > SampleDen THEN SampleDen ELSE n

\* trunc((n / SampleDen) * k): the store into an Int16Array drops the
\* fraction of the product, toward zero
TruncScale(n, k) ==
  LET a == IF n < 0 THEN -n ELSE n
      t == (a \div SampleDen) * k + ((a % SampleDen) * k) \div SampleDen
  IN IF n < 0 THEN -t ELSE t

\* an integer as a 16-bit two's complement value
ToInt16(x) == LET m == x % 65536 IN IF m >= 32768 THEN m - 65536 ELSE m

\* EncodeSample without the clamp of line 23
EncodeSampleNoClamp(n) ==
  ToInt16(IF n < 0 THEN TruncScale(n, NegScale) ELSE TruncScale(n, PosScale))

\* line 24: int16[i] = s < 0 ? s * 0x8000 : s * 0x7FFF
EncodeSample(n) ==
  LET s == Clamp(n)
  IN ToInt16(IF s < 0 THEN TruncScale(s, NegScale) ELSE TruncScale(s, PosScale))

\* line 27: new Uint8Array(int16.buffer), little-endian
RECURSIVE FrameBytes(_)
FrameBytes(data) ==
  IF data = <<>> THEN <<>>
  ELSE LET u == EncodeSample(Head(data)) % 65536
       IN <<u % 256, u \div 256>> \o FrameBytes(Tail(data))

\* line 34: btoa, as a sequence of 6-bit digits; 64 is the padding sign
RECURSIVE Btoa(_)
Btoa(b) ==
  IF b = <<>> THEN <<>>
  ELSE IF Len(b) = 1 THEN <<b[1] \div 4, (b[1] % 4) * 16, 64, 64>>
  ELSE IF Len(b) = 2
    THEN <<b[1] \div 4, (b[1] % 4) * 16 + b[2] \div 16, (b[2] % 16) * 4, 64>>
  ELSE <<b[1] \div 4, (b[1] % 4) * 16 + b[2] \div 16,
         (b[2] % 16) * 4 + b[3] \div 64, b[3] % 64>>
       \o Btoa(SubSeq(b, 4, Len(b)))

\* line 2: atob
RECURSIVE Atob(_)
Atob(t) ==
  IF t = <<>> THEN <<>>
  ELSE LET b1 == t[1] * 4 + t[2] \div 16
           b2 == (t[2] % 16) * 16 + t[3] \div 4
           b3 == (t[3] % 4) * 64 + t[4]
       IN (IF t[3] = 64 THEN <<b1>>
           ELSE IF t[4] = 64 THEN <<b1, b2>> ELSE <<b1, b2, b3>>)
          \o Atob(SubSeq(t, 5, Len(t)))

\* lines 19-35
float32ArrayToBase64(data) == Btoa(FrameBytes(data))

\* lines 1-17: new Int16Array(bytes.buffer) throws a RangeError when the
\* byte count is odd
base64ToFloat32Array(base64) ==
  LET bytes == Atob(base64)
  IN IF Len(bytes) % 2 # 0 THEN [ok |-> FALSE, samples |-> <<>>]
     ELSE [ok |-> TRUE,
           samples |-> [i \in 1..(Len(bytes) \div 2) |->
                          ToInt16(bytes[2 * i - 1] + 256 * bytes[2 * i])]]

CodecFrame ==
  UNCHANGED <<uiVars, teardownRefs, otherRefs, resVars, mediaSupported, app,
              syncRender, clock, outTime, sent, scheduled, msgCount, received,
              procVars, histVars>>

\* lines 19-35: a captured frame is encoded
CodecEncode ==
  /\ codec.pc = "data"
  /\ codec' = [pc |-> "base64", data |-> codec.data,
               base64 |-> float32ArrayToBase64(codec.data)]
  /\ CodecFrame

\* lines 1-17: the encoded frame is decoded
CodecDecode ==
  /\ codec.pc = "base64"
  /\ codec' = [pc |-> "decoded", data |-> codec.data, base64 |-> codec.base64,
               out |-> base64ToFloat32Array(codec.base64)]
  /\ CodecFrame

\* A frame of grid samples, encoded and decoded again.
InitCodec ==
  /\ SessionInit /\ app = AppInit
  /\ codec \in {[pc |-> "data", data |-> f] : f \in Frames}
NextCodec == CodecEncode \/ CodecDecode
SpecCodec == InitCodec /\ [][NextCodec]_vars

\* ------------------------------------------- the capture callback's block ---
\* lines 180-194 of InterviewSession.tsx: a captured block is downsampled
\* when the input context runs faster than 16 kHz, and encoded.
TargetRate == 16000    \* line 184
MaxBlockLen == 8       \* samples in one captured block
CaptureRates == {8000, 16000, 22050, 32000, 44100, 48000}

\* Blocks whose samples rise or fall from index to index, some of them past
\* the range [-1, 1].
Slopes == {-(SampleDen \div 4) - 1, -1, 0, 1, SampleDen \div 4}
CaptureBlocks ==
  {[i \in 1..n |-> k * i] : n \in 1..MaxBlockLen, k \in Slopes}

\* What a Float32Array holds after undefined was stored into it; no sample
\* of a block has this value.
NaN == 4 * MaxBlockLen * SampleDen

\* DownsampleTo16k with Math.ceil for Math.floor at line 186
DownsampleRoundUp(block, rate) ==
  IF rate > TargetRate
  THEN LET newLength == (Len(block) * TargetRate + rate - 1) \div rate
           at == [i \in 1..newLength |-> ((i - 1) * rate) \div TargetRate]
       IN [reads |-> at,
           data |-> [i \in 1..newLength |->
                       IF at[i] < Len(block) THEN block[at[i] + 1] ELSE NaN]]
  ELSE [reads |-> <<>>, data |-> block]

\* lines 183-192: ratio = rate / 16000, newLength = floor(length / ratio),
\* downsampled[i] = inputData[floor(i * ratio)].  reads lists the indices
\* read; an index past the end of the block reads undefined.
DownsampleTo16k(block, rate) ==
  IF rate > TargetRate
  THEN LET newLength == (Len(block) * TargetRate) \div rate
           at == [i \in 1..newLength |-> ((i - 1) * rate) \div TargetRate]
       IN [reads |-> at,
           data |-> [i \in 1..newLength |->
                       IF at[i] < Len(block) THEN block[at[i] + 1] ELSE NaN]]
  ELSE [reads |-> <<>>, data |-> block]

\* lines 180-192: the callback takes the block and downsamples it
CaptureDownsample ==
  /\ codec.pc = "block"
  /\ LET r == DownsampleTo16k(codec.block, codec.rate)
     IN codec' = [pc |-> "data", rate |-> codec.rate, block |-> codec.block,
                  reads |-> r.reads, data |-> r.data]
  /\ CodecFrame

\* A block captured at one of the rates, downsampled and encoded.
InitCapture ==
  /\ SessionInit /\ app = AppInit
  /\ codec \in {[pc |-> "block", rate |-> r, block |-> b] :
                  r \in CaptureRates, b \in CaptureBlocks}
NextCapture == CaptureDownsample \/ CodecEncode
SpecCapture == InitCapture /\ [][NextCapture]_vars

\* ------------------------------------------------- the host application ---
AppFrame ==
  UNCHANGED <<uiVars, teardownRefs, otherRefs, resVars, mediaSupported,
              syncRender, clock, outTime, sent, scheduled, msgCount, received,
              codec, procVars, histVars>>

\* part_000 lines 45-46 and 50-52: generateInterviewReport resolved
ReportResolve ==
  /\ app.pc = "pending"
  /\ app' = [app EXCEPT !.report = "result", !.isLoading = FALSE, !.pc = "done"]
  /\ AppFrame

\* part_000 lines 47-52: generateInterviewReport rejected
ReportReject ==
  /\ app.pc = "pending"
  /\ app' = [app EXCEPT !.error = "Failed to generate report.",
                        !.isLoading = FALSE, !.pc = "done"]
  /\ AppFrame

\* part_000 lines 146-158: the report step shows ReportView, with its
\* restart button, when there is a report, and the loading view otherwise
ReportViewShown == app.step = "REPORT" /\ app.report # "null"

\* part_000 lines 54-60: handleRestart, reachable from ReportView only
HandleRestart ==
  /\ ReportViewShown
  /\ app' = [app EXCEPT !.step = "UPLOAD", !.analysis = "null",
                        !.report = "null", !.transcriptData = <<>>,
                        !.error = "null"]
  /\ AppFrame

\* part_000 lines 19-32: a handleAnalyze call resumes with the analysis.
\* ResumeUploader starts one call per file read (ResumeUploader.tsx lines
\* 14-26) and a second file can be chosen before the first has been read, so
\* a call can outlive the upload step; its setStep(ANALYSIS) at line 25
\* then takes the interview step away and the session component unmounts.
AnalyzeResolve(fault) ==
  /\ app.analyzing
  /\ app' = [app EXCEPT !.analysis = "set", !.step = "ANALYSIS",
                        !.isLoading = FALSE, !.analyzing = FALSE]
  /\ Unmount(fault)
  /\ Did("AnalyzeResolve", 0, FALSE)
  /\ UNCHANGED <<epc, completeCount, deliveredText>>
  /\ UnmountFrame

\* part_000 lines 26-31: the handleAnalyze call resumes with a failure
AnalyzeReject ==
  /\ app.analyzing
  /\ app' = [app EXCEPT !.error = "Unable to analyze resume.",
                        !.isLoading = FALSE, !.analyzing = FALSE]
  /\ AppFrame

\* One session attempt followed by the report request; messages and blocks
\* are delivered only to be dropped.
NextApp ==
  \/ Lifecycle(NoFaults, MaxStarts)
  \/ Deliveries(0, 0)
  \/ ReportResolve
  \/ ReportReject
  \/ HandleRestart

SpecApp == Init /\ [][NextApp]_vars

\* One session attempt at the interview step while an earlier handleAnalyze
\* call is still pending: the component can be unmounted at any point of
\* the attempt.  Messages and blocks are delivered only to be dropped.
InitDispose ==
  /\ SessionInit /\ codec = [pc |-> "idle"]
  /\ app = [AppInit EXCEPT !.analyzing = TRUE]
NextDispose ==
  \/ Lifecycle(NoFaults, MaxStarts)
  \/ Deliveries(0, 0)
  \/ AnalyzeResolve("none")
  \/ AnalyzeReject

SpecDispose == InitDispose /\ [][NextDispose]_vars

\* ----------------------------------------------------------- properties ---
SessionState == <<isConnectedRef, isConnected, error, status, transcript,
                  transcriptTextRef, nextStartTimeRef, sent, scheduled,
                  decoding>>

\* C1: a channel or capture callback (onopen, onmessage, onclose, onerror,
\* onaudioprocess) delivered when the token is no longer the one it was
\* created with changes no session state: connection flag, error, status,
\* transcript log, raw text buffer and playback cursor keep their values,
\* nothing is sent, nothing is scheduled and no decode is started.
C1_StaleDeliveryChangesNothing ==
  [][(last'.stale /\ last'.op # "decoded") => UNCHANGED SessionState]_vars

\* A message of the first attempt is delivered while the second attempt's
\* token is current.
C1_Witness ==
  /\ last.stale /\ last.op = "onmessage"
  /\ attempts = 2 /\ connectionIdRef = genTok[2] /\ connectionIdRef # genTok[1]

C3_ExpiryEndsOnceAndCompletes ==
  /\ [](timeLeft = 0 => attempts > 0 /\ endCount[attempts] = 1)
  /\ (timeLeft = 0 /\ endTrigger = "timer") ~> (completeCount = 1)

\* The countdown has expired in a session whose channel is open and shown
\* as connected (Active); no end request came first, and the teardown that
\* the expiry started is under way.
C3_Witness ==
  /\ timeLeft = 0 /\ endTrigger = "timer" /\ endCount[1] = 1
  /\ chan[1] = "open" /\ isConnected /\ activeSessionRef = 0
  /\ epc = "cleanup" /\ completeCount = 0

\* C4: the text onComplete receives after the countdown expired is the
\* role-labelled flattening of the transcript log as it stood at expiry.
C4_ExpiryDeliversFlattenedLog ==
  (endTrigger = "timer" /\ completeCount = 1 /\ expiryLog # <<>>)
    => deliveredText = Flatten(expiryLog)

\* C5: no generation enters Ending more than once, and onComplete is invoked
\* at most once.
C5_EndingAndCompletionAtMostOnce ==
  /\ \A g \in Gens : endCount[g] <= 1
  /\ completeCount <= 1

\* The second attempt was ended by the button, the countdown then expired
\* (a second end request, absorbed), and onComplete was invoked.
C5_Witness ==
  /\ attempts = 2 /\ endCount[2] = 1 /\ endTrigger = "click"
  /\ timeLeft = 0 /\ completeCount = 1

\* cleanupAudio run from the refs R until it returns or rejects, each close
\* it awaits settling before anything else happens.
RECURSIVE Finish(_)
Finish(res) ==
  IF Suspended(res)
  THEN LET n == CleanupContinue([at |-> res.at, held |-> res.held], res.R, "none")
       IN Finish([n EXCEPT !.ev = res.ev \o n.ev])
  ELSE res
CleanupToCompletion(R) == Finish(CleanupAudio(R, "none"))

NullRefs ==
  [tok |-> 0, sess |-> 0, conn |-> FALSE, stream |-> 0, inCtx |-> 0,
   outCtx |-> 0, proc |-> 0, src |-> 0, gain |-> 0, frame |-> 0]

\* Every resource the refs R held is released by the events ev.
Released(R, ev) ==
  /\ R.sess # 0 => Has(ev, "chanCloseCall", R.sess)
  /\ R.stream # 0 => Has(ev, "tracksStop", R.stream)
  /\ R.inCtx # 0 => inCtx[R.inCtx] = "closed" \/ Has(ev, "inCtxCloseDone", R.inCtx)
  /\ R.outCtx # 0 =>
       outCtx[R.outCtx] = "closed" \/ Has(ev, "outCtxCloseDone", R.outCtx)
  /\ R.proc # 0 => Has(ev, "nodesDisconnect", R.proc)
  /\ R.src # 0 => Has(ev, "nodesDisconnect", R.src)
  /\ R.gain # 0 => Has(ev, "nodesDisconnect", R.gain)
  /\ R.frame # 0 => Has(ev, "frameCancel", R.frame)

\* C6: from every state, cleanupAudio run to completion twice in succession
\* returns both times; the first run releases every resource the refs held
\* and leaves every ref null, the connection flag false and the token
\* invalidated; the second run releases nothing and leaves the refs as the
\* first left them.
C6_TeardownIdempotent ==
  LET r1 == CleanupToCompletion(Refs)
      r2 == CleanupToCompletion(r1.R)
  IN /\ r1.at = "done" /\ r2.at = "done"
     /\ Released(Refs, r1.ev)
     /\ r1.R = NullRefs
     /\ r2.R = r1.R
     /\ r2.ev = <<Ev("tokenInvalidate", 0)>>

\* The end request's teardown ran to completion on a full session, then the
\* unmount's teardown ran, and nothing is left.
C6_Witness ==
  /\ completeCount = 1 /\ ~mounted /\ cleanups = {}
  /\ closeCalls[<<"chan", 1>>] = 1 /\ stream[1] = "stopped"
  /\ inCtx[1] = "closed" /\ outCtx[1] = "closed" /\ graph[1] = "disconnected"
  /\ frame[1] = "cancelled"
  /\ Refs = NullRefs

\* The step leaves the resources of attempt g, and the refs that hold them,
\* as they are.
Untouched(g) ==
  /\ stream'[g] = stream[g] /\ inCtx'[g] = inCtx[g] /\ outCtx'[g] = outCtx[g]
  /\ graph'[g] = graph[g] /\ frame'[g] = frame[g]
  /\ \A k \in {"chan", "inCtx", "outCtx"} :
       closeCalls'[<<k, g>>] = closeCalls[<<k, g>>]
  /\ activeSessionRef = g => activeSessionRef' = g
  /\ streamRef = g => streamRef' = g
  /\ audioContextRef = g => audioContextRef' = g
  /\ inputAudioContextRef = g => inputAudioContextRef' = g
  /\ processorRef = g => processorRef' = g
  /\ sourceRef = g => sourceRef' = g
  /\ gainRef = g => gainRef' = g
  /\ visualizerFrameRef = g => visualizerFrameRef' = g

\* C7: a teardown invocation that resumes from an await never stops, closes,
\* disconnects or clears a resource of an attempt that was started after the
\* invocation was called.
C7_TeardownSparesNewerGeneration ==
  [][\A c \in cleanups \ cleanups' :
       \A g \in Gens : g > c.born => Untouched(g)]_vars

\* C8: close is called at most once on every channel handle and every audio
\* context, and no end request's teardown fails.
C8_ReleasedAtMostOnce ==
  /\ \A k \in DOMAIN closeCalls : closeCalls[k] <= 1
  /\ epc # "failed"

\* Two teardown invocations from different triggers are suspended at once,
\* and a context has been closed.
C8_Witness ==
  /\ \E c1, c2 \in cleanups : c1.caller # c2.caller
  /\ \E g \in Gens : closeCalls[<<"inCtx", g>>] = 1

\* The place of a release event in the order of cleanupAudio's steps.
Rank(label) ==
  CASE label = "tokenInvalidate" -> 1
    [] label \in {"chanCloseCall", "chanCloseThrow"} -> 2
    [] label \in {"chanCloseDone", "chanCloseFail"} -> 3
    [] label = "tracksStop" -> 4
    [] label = "inCtxCloseCall" -> 5
    [] label \in {"inCtxCloseDone", "inCtxCloseFail"} -> 6
    [] label = "outCtxCloseCall" -> 7
    [] label \in {"outCtxCloseDone", "outCtxCloseFail"} -> 8
    [] label = "nodesDisconnect" -> 9
    [] label = "frameCancel" -> 10

\* The events of one invocation are in step order, and each awaited close
\* has settled before the next event.
Ordered(log) ==
  /\ \A i, j \in 1..Len(log) :
       i < j => \/ Rank(log[i]) < Rank(log[j])
                \/ log[i] = "nodesDisconnect" /\ log[j] = "nodesDisconnect"
  /\ \A i \in 1..Len(log) :
       (Rank(log[i]) \in {2, 5, 7} /\ log[i] # "chanCloseThrow" /\ i < Len(log))
         => Rank(log[i + 1]) = Rank(log[i]) + 1

\* C9: the release events of every teardown invocation - one called in this
\* state, and every suspended one with what it has done and what it does
\* when it resumes in this state - are in the order token, channel close,
\* tracks, input context, output context, nodes, metering frame, and every
\* awaited close settles before the next step starts.
C9_ReleaseOrder ==
  /\ Ordered(Labels(CleanupAudio(Refs, "none").ev))
  /\ Ordered(Labels(CleanupToCompletion(Refs).ev))
  /\ \A c \in cleanups :
       /\ Ordered(c.log \o Labels(CleanupContinue(c, Refs, "none").ev))
       /\ Ordered(c.log \o Labels(Finish(CleanupContinue(c, Refs, "none")).ev))

\* A teardown of a full session is suspended at the close of the output
\* context, having gone through every earlier step, with the nodes and the
\* metering frame still to release.
C9_Witness ==
  \E c \in cleanups :
    /\ c.log = <<"tokenInvalidate", "chanCloseCall", "chanCloseDone",
                 "tracksStop", "inCtxCloseCall", "inCtxCloseDone",
                 "outCtxCloseCall">>
    /\ processorRef # 0 /\ visualizerFrameRef # 0

\* C10: whichever release step fails, the teardown an end request awaits
\* does not reject, so the end request goes on to deliver onComplete.
C10_EndTeardownNeverRejects == epc # "failed"

\* No resource of any attempt is live and no ref holds a handle: tracks
\* stopped, contexts closed, nodes disconnected, metering cancelled, and
\* close called on every channel that is connecting or open.
AllReleased ==
  /\ Refs = NullRefs
  /\ \A g \in Gens :
       /\ stream[g] # "live"
       /\ inCtx[g] # "running" /\ outCtx[g] # "running"
       /\ graph[g] # "connected" /\ frame[g] # "running"
       /\ chan[g] \in {"connecting", "open"} => closeCalls[<<"chan", g>>] >= 1

\* C11: at the moment onComplete is invoked the teardown is complete: the
\* channel is closed, the tracks are stopped, both audio contexts are closed
\* and no resource handle is live.
C11_CompleteOnlyAfterRelease ==
  [][completeCount' = completeCount + 1 => AllReleased]_vars

\* C12: when the session ends without any message having been handled (no
\* transcript fragment was received), onComplete receives exactly
\* "No conversation recorded.".
C12_EmptyConversationText ==
  (completeCount = 1 /\ msgCount = 0)
    => deliveredText = <<"No conversation recorded.">>

\* The transcript log as it stood when the end request was made.
EndLog == IF endTrigger = "timer" THEN expiryLog ELSE endClosure

\* C13: the text onComplete receives is assembled from the transcript log
\* at the end request: when the log has an entry, the entries in order, each
\* as "Candidate: <text>" or "Interviewer: <text>", joined by a blank line;
\* the placeholder only when the log is empty.
C13_FinalTranscriptAssembly ==
  completeCount = 1 =>
    /\ EndLog # <<>> => deliveredText = Flatten(EndLog)
    /\ deliveredText = <<"No transcript available.">> => EndLog = <<>>

\* C14: the transcript log never holds two adjacent entries with the same
\* role.
C14_NoAdjacentSameRole ==
  \A i \in 1..(Len(transcript) - 1) : transcript[i].role # transcript[i + 1].role

\* two fragments of the same role were received and merged into one entry
C14_Witness ==
  /\ msgCount = 2 /\ decoding = <<>>
  /\ Len(transcript) = 1 /\ Len(transcript[1].text) = 2

\* Reference grouping of a fragment sequence into maximal runs of equal
\* role, each run's texts concatenated in order.
RECURSIVE GroupRuns(_)
GroupRuns(seq) ==
  IF seq = <<>> THEN <<>>
  ELSE LET h == Head(seq)
           rest == GroupRuns(Tail(seq))
       IN IF rest # <<>> /\ rest[1].role = h.role
          THEN <<[role |-> h.role, text |-> h.text \o rest[1].text]>> \o Tail(rest)
          ELSE <<h>> \o rest

\* C15: once every received message has been processed, the transcript log
\* equals the received fragments grouped into maximal runs of equal role,
\* texts concatenated in receipt order: none lost, duplicated or reordered.
C15_LogIsGroupedFragments ==
  (mounted /\ decoding = <<>>) => transcript = GroupRuns(received)

\* C16: every buffer is scheduled to start at the larger of its output
\* context's clock and the playback cursor, both read when it is scheduled,
\* and the cursor moves to that start plus the buffer's duration in the same
\* step; no buffer starts before the clock of its context.
C16_ScheduleAtMaxOfClockAndCursor ==
  [][Len(scheduled') = Len(scheduled) + 1 =>
       LET e == scheduled'[Len(scheduled')]
       IN /\ e.start = Max(outTime'[e.ctx], nextStartTimeRef)
          /\ e.start >= outTime'[e.ctx]
          /\ nextStartTimeRef' = e.start + 1]_vars

\* a second buffer was queued behind the first while the clock stood still
C16_Witness ==
  /\ Len(scheduled) = 2
  /\ scheduled[1].start = 0 /\ scheduled[2].start = 1
  /\ outTime[scheduled[2].ctx] = 0

\* C17: the buffers scheduled on one generation's output context play back
\* to back: each starts at the end of the one scheduled before it on that
\* context (at 0 for the first), or at the context's clock when the clock
\* has run past that point, never earlier and never later.  Every buffer
\* lasts one unit.  Messages of an earlier generation may still arrive.
C17_PlaybackMonotoneWithinGeneration ==
  [][Len(scheduled') = Len(scheduled) + 1 =>
       LET e == scheduled'[Len(scheduled')]
           prev == SelectSeq(scheduled, LAMBDA x : x.ctx = e.ctx)
           cursor == IF prev = <<>> THEN 0 ELSE prev[Len(prev)].start + 1
       IN e.start = Max(outTime'[e.ctx], cursor)]_vars

\* the second attempt's first buffer starts at 0 although the first
\* attempt moved the cursor and its channel is still open
C17_Witness ==
  /\ attempts = 2 /\ chan[1] = "open"
  /\ Len(scheduled) = 2
  /\ scheduled[1].ctx = 1 /\ scheduled[1].start = 1
  /\ scheduled[2].ctx = 2 /\ scheduled[2].start = 0

\* C18: when a mounted component's start attempt fails at the microphone
\* (getUserMedia missing, or its promise rejected), the attempt ends
\* retryable: not started, the error set, the countdown stopped, every ref
\* null and the token invalidated, nothing of the attempt live, and the
\* start request enabled again.
C18_MicFailureIsRetryable ==
  [][(mounted /\ spc \in {"mint", "mic"} /\ spc' = "idle") =>
       /\ ~hasStarted' /\ error' = "Failed to start session." /\ ~timerOn'
       /\ Refs' = NullRefs
       /\ stream'[sGen'] # "live" /\ chan'[sGen'] = "none"
       /\ outCtx'[sGen'] # "running" /\ inCtx'[sGen'] # "running"
       /\ graph'[sGen'] # "connected" /\ frame'[sGen'] # "running"
       /\ mounted' /\ (status' = "" \/ error' # "null")]_vars

\* the first attempt failed at the microphone and the second is Active
C18_Witness ==
  /\ attempts = 2 /\ stream[1] = "none" /\ chan[1] = "none"
  /\ hasStarted /\ isConnected /\ error = "null"
  /\ chan[2] = "open" /\ activeSessionRef = 2 /\ stream[2] = "live"
  /\ connectionIdRef = genTok[2]

\* C19: the countdown does not run before the channel of the current
\* attempt has opened: the remaining time never decreases while the
\* attempt is initializing or its channel is still connecting.
C19_NoTickBeforeOpen ==
  [][timeLeft' < timeLeft =>
       attempts > 0 /\ chan[attempts] # "none" /\ chan[attempts] # "connecting"]_vars

\* C20: the remaining time is a whole number of seconds between 0 and the
\* session length; it changes only by a tick, which lowers it by exactly 1
\* within the attempt, or by a start, which resets it to the session
\* length; at 0 the countdown has stopped.
C20_RemainingTimeCountsDown ==
  /\ [](timeLeft \in 0..InitialTime /\ (timeLeft = 0 => ~timerOn))
  /\ [][timeLeft' # timeLeft =>
          \/ attempts' = attempts /\ timeLeft' = timeLeft - 1
          \/ attempts' = attempts + 1 /\ timeLeft' = InitialTime]_vars

\* the second attempt's countdown, reset by its start, has run down to 0
C20_Witness ==
  /\ attempts = 2 /\ timeLeft = 0 /\ endTrigger = "timer" /\ endGen = 2

\* A close or an error of attempt g's open channel is reported while g's
\* token is current and the session is started.
ChannelDip(g) ==
  /\ hasStarted /\ mounted /\ ~Stale(g) /\ chan[g] = "open"
  /\ \/ chan'[g] = "closed"
     \/ error' # error /\ error' = "Connection interrupted."

PreOpenFailure ==
  /\ attempts > 0 /\ chan[attempts] \in {"connecting", "refused"}
  /\ error # "null"

\* C22: when the channel of the current attempt fails before it has opened
\* (connect rejected, or an error reported while connecting), the attempt
\* is back in the retryable state, not started and its countdown stopped,
\* and the countdown never ends the session for it: onComplete is not
\* invoked.
C22_FailureBeforeOpenIsRetryable ==
  /\ (mounted /\ PreOpenFailure) => ~hasStarted /\ ~timerOn
  /\ (PreOpenFailure /\ endTrigger = "timer") => completeCount = 0

\* C23: a captured block is sent only by a capture callback whose token is
\* current, while the connection flag is set and the channel open, the
\* microphone is not muted and a channel handle is installed; it goes to
\* that handle's channel, one block per callback, and nothing else ever
\* sends (a dropped block is not sent later).
C23_CaptureGating ==
  [][sent' # sent =>
       /\ activeSessionRef # 0 /\ chan[activeSessionRef] = "open"
       /\ isConnectedRef /\ isMicOnRef /\ isMicOn
       /\ \E g \in Gens : ~Stale(g) /\ graph[g] # "none"
       /\ sent' = [sent EXCEPT ![activeSessionRef] = @ + 1]]_vars

\* one block was sent and the microphone was muted afterwards: the blocks
\* captured since are dropped
C23_Witness ==
  /\ sent[1] = 1 /\ ~isMicOn /\ ~isMicOnRef
  /\ isConnectedRef /\ activeSessionRef = 1 /\ chan[1] = "open"

\* C24: a capture callback whose send throws changes nothing: the
\* connection flags, the error, the countdown, the ended guard, the refs
\* and every resource keep their values, no teardown is started, nothing
\* is counted as sent, and the conditions under which the next block is
\* sent still hold.
C24_SendFailureAbsorbed ==
  [][last'.op = "sendFailed" =>
       /\ UNCHANGED <<uiVars, teardownRefs, otherRefs, resVars, sent, timerOn,
                      epc, spc, cleanups, endCount, completeCount>>
       /\ isConnectedRef' /\ isMicOnRef' /\ activeSessionRef' # 0
       /\ connectionIdRef' = genTok[activeSessionRef']]_vars

\* a send has failed in a session that is connected and counting down, and
\* no block has been sent yet
C24_Witness ==
  /\ last.op = "sendFailed" /\ sent[1] = 0
  /\ isConnected /\ isConnectedRef /\ activeSessionRef = 1 /\ chan[1] = "open"
  /\ timerOn /\ error = "null" /\ ~isEndedRef

\* C25: when the handler resumes for a message whose audio chunk has an odd
\* byte count, the chunk is dropped: nothing is scheduled and the playback
\* cursor, the connection flags, the error, the status, the countdown, the
\* started and ended flags and the transcript keep their values.
C25_MalformedChunkDropped ==
  [][(decoding # <<>> /\ Head(decoding).m.audio = "bad"
        /\ decoding' = Tail(decoding)) =>
       UNCHANGED <<scheduled, nextStartTimeRef, isConnected, isConnectedRef,
                   error, status, timeLeft, timerOn, hasStarted, isEndedRef,
                   transcript, transcriptTextRef, epc, cleanups>>]_vars

\* the one message handled carried a malformed chunk: nothing is scheduled
\* and the session is connected, without an error, and counting down
C25_Witness ==
  /\ msgCount = 1 /\ received # <<>> /\ decoding = <<>>
  /\ scheduled = <<>> /\ transcript = <<>>
  /\ isConnected /\ error = "null" /\ timerOn /\ nextStartTimeRef = 0

\* C26: a frame of samples in [-1, 1] that is encoded and decoded comes
\* back with the same length and every sample within 1/32768 of the
\* original.
C26_CodecRoundTrip ==
  codec.pc = "decoded" =>
    /\ codec.out.ok
    /\ Len(codec.out.samples) = Len(codec.data)
    /\ \A i \in 1..Len(codec.data) :
         LET r == SampleDen \div DecodeScale
             d == codec.data[i] - r * codec.out.samples[i]
         IN d <= r /\ -d <= r

\* C27: the step of a start request that mints the token gives the attempt
\* a token that is not the invalidated value and differs from the one
\* current before, sets the remaining time to the session length, empties
\* the transcript log and the raw text buffer, puts the playback cursor at
\* 0 and clears the ended guard, and at that point nothing of the new
\* attempt has been acquired.
C27_StartResetsSession ==
  [][(mounted /\ attempts' = attempts + 1) =>
       /\ genTok'[attempts'] # 0 /\ genTok'[attempts'] # connectionIdRef
       /\ mediaSupported => connectionIdRef' = genTok'[attempts']
       /\ timeLeft' = InitialTime
       /\ transcript' = <<>> /\ transcriptTextRef' = <<>>
       /\ nextStartTimeRef' = 0 /\ ~isEndedRef'
       /\ stream'[attempts'] = "none" /\ chan'[attempts'] = "none"
       /\ outCtx'[attempts'] = "none" /\ inCtx'[attempts'] = "none"
       /\ graph'[attempts'] = "none" /\ frame'[attempts'] = "none"]_vars

\* the retry has just minted its token: the first attempt's transcript and
\* cursor are gone and the countdown is back at the session length
C27_Witness ==
  /\ attempts = 2 /\ spc = "mic" /\ scheduled # <<>>
  /\ transcript = <<>> /\ transcriptTextRef = <<>> /\ nextStartTimeRef = 0
  /\ timeLeft = InitialTime /\ connectionIdRef = genTok[2]

\* C28: no two start attempts receive the same token, and no attempt
\* receives the invalidated value.
C28_TokensNeverReused ==
  \A g, h \in Gens :
    (g < h /\ h <= attempts) => genTok[g] # genTok[h] /\ genTok[g] # 0 /\ genTok[h] # 0

\* C29: once onComplete has been invoked the transcript log is empty.
C29_LogClearedAfterCompletion ==
  completeCount >= 1 => transcript = <<>>

\* C30: when the report request has failed, the application shows the
\* error and a view in which the user can act: it is not left in the
\* report step's loading view, which has no control.
C30_ReportFailureIsRecoverable ==
  (app.step = "REPORT" /\ app.pc = "done" /\ app.report = "null") =>
    /\ app.error = "Failed to generate report."
    /\ ReportViewShown

\* C31: the buffers of one generation are scheduled in the order in which
\* their messages arrived, and a buffer scheduled later does not start
\* earlier: of two scheduled buffers of a generation, the one whose message
\* arrived first is first in the schedule and its start time is not later.
C31_PlaybackKeepsArrivalOrder ==
  \A i, j \in 1..Len(scheduled) :
    (scheduled[i].gen = scheduled[j].gen /\ scheduled[i].seq < scheduled[j].seq)
      => i < j /\ scheduled[i].start <= scheduled[j].start

\* two audio messages arrived and the buffers of both are scheduled, the
\* second behind the first
C31_Witness ==
  /\ Len(scheduled) = 2 /\ decoding = <<>>
  /\ scheduled[1].gen = 1 /\ scheduled[2].gen = 1
  /\ scheduled[1].seq = 1 /\ scheduled[2].seq = 2
  /\ scheduled[1].start = 0 /\ scheduled[2].start = 1

\* C32: when the handler of a message that carries an audio payload and a
\* candidate fragment resumes from the decode, the fragment is appended to
\* the transcript log, whether the payload decoded or not.
C32_FragmentIndependentOfAudio ==
  [][(mounted /\ decoding # <<>> /\ decoding' = Tail(decoding)
        /\ Head(decoding).m.inT # <<>>) =>
       transcript' = AppendFragment(transcript, "user", Head(decoding).m.inT)]_vars

\* C33: when the microphone request of an attempt resolves after the
\* attempt's token was invalidated or replaced, the tracks of the stream it
\* delivers are stopped, the stream ref keeps its value (the stream is not
\* installed), the start request ends there, and the attempt holds no audio
\* context, node, metering frame or channel.
C33_LateMicrophoneIsReleased ==
  [][(spc = "mic" /\ stream'[sGen] # stream[sGen]
        /\ connectionIdRef # genTok[sGen]) =>
       /\ stream'[sGen] = "stopped"
       /\ streamRef' = streamRef /\ streamRef' # sGen
       /\ spc' = "idle"
       /\ outCtx'[sGen] = "none" /\ inCtx'[sGen] = "none"
       /\ graph'[sGen] = "none" /\ frame'[sGen] = "none"
       /\ chan'[sGen] = "none"
       /\ UNCHANGED <<teardownRefs, hasStarted, timerOn>>]_vars

\* the component was unmounted while the microphone request was pending;
\* the request has resolved since and its stream is stopped and not held
C33_Witness ==
  /\ ~mounted /\ attempts = 1 /\ spc = "idle"
  /\ stream[1] = "stopped" /\ streamRef = 0 /\ outCtx[1] = "none"
  /\ chan[1] = "none" /\ connectionIdRef = 0 /\ genTok[1] # 0

\* C34: when the connect of an attempt resolves after the attempt's token
\* was invalidated or replaced, close is called on the channel it returns
\* and the handle is not installed; a handle is installed only for the
\* attempt whose token is current, so a session torn down while connecting
\* leaves no channel without a close call.
C34_LateChannelIsClosed ==
  /\ [][(spc = "connect" /\ last'.op = "connectResolved"
           /\ connectionIdRef # genTok[sGen]) =>
          /\ closeCalls'[<<"chan", sGen>>] = closeCalls[<<"chan", sGen>>] + 1
          /\ activeSessionRef' = activeSessionRef /\ activeSessionRef' # sGen
          /\ UNCHANGED <<teardownRefs, stream, outCtx, inCtx, graph, frame>>]_vars
  /\ [][(activeSessionRef' # activeSessionRef /\ activeSessionRef' # 0) =>
          /\ spc = "connect" /\ last'.op = "connectResolved"
          /\ activeSessionRef' = sGen /\ connectionIdRef = genTok[sGen]]_vars

\* the component was unmounted while the connect was pending and the
\* channel had already opened; the connect has resolved since, its handle
\* was closed and is not held
C34_Witness ==
  /\ last.op = "connectResolved" /\ ~mounted /\ completeCount = 0
  /\ chan[1] = "open" /\ closeCalls[<<"chan", 1>>] = 1
  /\ activeSessionRef = 0 /\ connectionIdRef = 0

\* C35: no captured block is sent on a channel after a teardown has begun
\* to close it: whenever a block is sent on a channel, close has not been
\* called on that channel.
C35_NoSendAfterTeardownBegins ==
  [][\A g \in Gens :
       sent'[g] > sent[g] => closeCalls[<<"chan", g>>] = 0]_vars

\* a block was sent; then a teardown began, called close on the channel and
\* is awaiting it with the capture node still connected, and the capture
\* callback that fired since was dropped
C35_Witness ==
  /\ sent[1] = 1 /\ closeCalls[<<"chan", 1>>] = 1 /\ chan[1] = "open"
  /\ \E c \in cleanups : c.at = "session" /\ c.held = 1
  /\ graph[1] = "connected" /\ isConnectedRef
  /\ last.op = "onaudioprocess" /\ last.stale

\* The texts of the entries of a transcript log, concatenated in log order.
RECURSIVE LogText(_)
LogText(log) ==
  IF log = <<>> THEN <<>> ELSE log[1].text \o LogText(Tail(log))

\* C36: the raw text buffer equals the concatenation, in log order, of the
\* texts of the entries of the transcript log.
C36_RawBufferMatchesLog == transcriptTextRef = LogText(transcript)

\* the first attempt handled a message with a candidate fragment; the retry
\* reset log and buffer and has handled an interviewer fragment since
C36_Witness ==
  /\ attempts = 2 /\ scheduled # <<>> /\ scheduled[1].gen = 1
  /\ transcript = <<[role |-> "model", text |-> <<"b">>]>>
  /\ transcriptTextRef = <<"b">>

\* C37: a block captured at more than 16000 Hz is downsampled: the output
\* has floor(n / ratio) samples, ratio being rate / 16000, output sample i
\* is the input sample at index floor(i * ratio), and every index read lies
\* within the block.  A block captured at 16000 Hz or less is passed on
\* unchanged and nothing is read from it for downsampling.
C37_DownsampleByStride ==
  (codec.pc = "data" /\ "block" \in DOMAIN codec) =>
    LET n == Len(codec.block)
        len == Len(codec.data)
    IN IF codec.rate > TargetRate
       THEN /\ len * codec.rate <= n * TargetRate
            /\ n * TargetRate < (len + 1) * codec.rate
            /\ Len(codec.reads) = len
            /\ \A i \in 1..len :
                 LET j == codec.reads[i]
                 IN /\ j \in 0..(n - 1)
                    /\ j * TargetRate <= (i - 1) * codec.rate
                    /\ (i - 1) * codec.rate < (j + 1) * TargetRate
                    /\ codec.data[i] = codec.block[j + 1]
       ELSE codec.data = codec.block /\ codec.reads = <<>>

\* a block of 8 samples captured at 44100 Hz came out as the 2 samples at
\* the indices 0 and 2
C37_Witness ==
  /\ codec.pc = "data" /\ "block" \in DOMAIN codec
  /\ codec.rate = 44100 /\ Len(codec.block) = MaxBlockLen
  /\ codec.reads = <<0, 2>>
  /\ codec.data = <<codec.block[1], codec.block[3]>>
  /\ codec.block[1] # codec.block[3]

\* The 16-bit values stored in an encoded frame.
Stored(base64) == base64ToFloat32Array(base64).samples

\* C38: every sample of an encoded block, whatever its value, is stored as
\* a 16-bit value between -32768 and 32767 of the sample's sign: a sample
\* of -1 or less as -32768, a sample of 1 or more as 32767, 0 as 0, a
\* negative sample above -1 as the sample times 32768 and a positive sample
\* below 1 as the sample times 32767, the fraction dropped.
C38_EncodeClampsThenScales ==
  codec.pc = "base64" =>
    /\ Len(Stored(codec.base64)) = Len(codec.data)
    /\ \A i \in 1..Len(codec.data) :
         LET s == codec.data[i]
             x == Stored(codec.base64)[i]
         IN /\ x \in (-NegScale)..PosScale
            /\ s <= -SampleDen => x = -NegScale
            /\ s >= SampleDen => x = PosScale
            /\ s = 0 => x = 0
            /\ (s < 0 /\ s > -SampleDen) =>
                 /\ x <= 0
                 /\ ((-s) * NegScale - (-x) * SampleDen) \in 0..(SampleDen - 1)
            /\ (s > 0 /\ s < SampleDen) =>
                 /\ x >= 0
                 /\ (s * PosScale - x * SampleDen) \in 0..(SampleDen - 1)

\* a block that rises from 0.25 through 1 to 2 was encoded: 0.25 is stored
\* as 8191, 1 and 2 as 32767
C38_Witness ==
  /\ codec.pc = "base64" /\ Len(codec.data) = MaxBlockLen
  /\ codec.data[1] = SampleDen \div 4 /\ codec.data[4] = SampleDen
  /\ codec.data[MaxBlockLen] = 2 * SampleDen
  /\ Stored(codec.base64)[1] = 8191
  /\ Stored(codec.base64)[4] = PosScale
  /\ Stored(codec.base64)[MaxBlockLen] = PosScale

====
